---- MODULE Spec2Model ----
(***************************************************************************)
(* Model of server/archive.py: the TAR and ZIP archive senders that build  *)
(* an archive on the fly as a pull-driven sequence of byte chunks.         *)
(*                                                                         *)
(* Bytes are naturals 0..255, byte strings are sequences of bytes, an      *)
(* archive path (a Python str of ASCII characters) is the sequence of its  *)
(* character codes.  Python indexes from 0 and TLA+ from 1, so the byte at *)
(* Python offset k of a buffer b is b[k + 1].                              *)
(***************************************************************************)
EXTENDS Integers, Sequences, FiniteSets, TLC

\* ------------------------------------------------------------------ bounds

\* Entries one sender may hold (add_file of a new archive path is disabled
\* beyond it; replacing the source of a registered path is always possible).
MaxEntries == 2

\* The number of content_length() calls made on a sender before it streams.
MaxCalls == 2

\* The number of generator() calls made on a sender.
MaxGenerators == 2

\* archive.py:14 sets CHUNK_SIZE to 4_194_304 and archive.py:11 sets
\* CRC32_CHUNK_SIZE to 65_536.  The model keeps the two reads and their order
\* of magnitude apart but scales the sizes, so that a source file of a few
\* hundred bytes spans several payload reads and several checksum reads.
CHUNK_SIZE == 256

CRC32_CHUNK_SIZE == 64

\* --------------------------------------------------------------- constants

\* archive.py:17 and archive.py:20
SPACE == 32

ZERO == 48

\* ------------------------------------------------------- integers and bytes

Min(a, b) == IF a <= b THEN a ELSE b

RECURSIVE Pow(_, _)
Pow(b, e) == IF e = 0 THEN 1 ELSE b * Pow(b, e - 1)

\* Bitwise operators of Python on non-negative integers.
RECURSIVE BitXor(_, _)
BitXor(a, b) ==
    IF a = 0 THEN b
    ELSE IF b = 0 THEN a
    ELSE ((a + b) % 2) + 2 * BitXor(a \div 2, b \div 2)

RECURSIVE BitOr(_, _)
BitOr(a, b) ==
    IF a = 0 THEN b
    ELSE IF b = 0 THEN a
    ELSE (IF a % 2 = 1 \/ b % 2 = 1 THEN 1 ELSE 0) + 2 * BitOr(a \div 2, b \div 2)

\* i << k
Shl(i, k) == i * Pow(2, k)

\* bytearray(n) and b'\x00' * n: n zero bytes.
Zeros(n) == [i \in 1..n |-> 0]

\* functools.reduce(lambda x, y: x + y, s, start)
\* (the sum of s[lo..hi], split in halves to keep the recursion shallow)
RECURSIVE SumRange(_, _, _)
SumRange(s, lo, hi) ==
    IF lo > hi THEN 0
    ELSE IF lo = hi THEN s[lo]
    ELSE CHOOSE sum \in {SumRange(s, lo, mid) + SumRange(s, mid + 1, hi) :
                         mid \in {(lo + hi) \div 2}} : TRUE

\* (s is evaluated once, as the value of bytes)
Reduce(s, start) ==
    CHOOSE sum \in {start + SumRange(bytes, 1, Len(bytes)) : bytes \in {s}} : TRUE

\* buffer[a:b] = v for 0 <= a <= b.  Python clamps both ends of the slice to
\* the length of the buffer and replaces the slice by v whatever the length
\* of v is: the buffer grows or shrinks when len(v) differs from the slice.
\* (buffer is evaluated once, as the value of old)
SliceAssign(buffer, a, b, v) ==
    CHOOSE new \in {LET lo == Min(a, Len(old))
                        hi == Min(b, Len(old))
                    IN  SubSeq(old, 1, lo) \o v \o SubSeq(old, hi + 1, Len(old)) :
                    old \in {buffer}} : TRUE

\* buffer[i] = x for 0 <= i < len(buffer)
IndexAssign(buffer, i, x) == [buffer EXCEPT ![i + 1] = x]

\* builtins.oct(i)[2:] for i >= 0: the octal digits of i as ASCII codes,
\* most significant first, "0" for zero.
RECURSIVE oct(_)
oct(i) ==
    IF i < 8 THEN <<ZERO + i>> ELSE Append(oct(i \div 8), ZERO + (i % 8))

\* str.rjust(width, '0'): pads on the left up to width, never truncates.
RJust(digits, width) ==
    IF Len(digits) >= width THEN digits
    ELSE [i \in 1..(width - Len(digits)) |-> ZERO] \o digits

\* int.to_bytes(n, byteorder='little') raises OverflowError for a negative
\* value and for a value that needs more than n bytes.
\* (v is evaluated once, as the value of int)
\* A Python int has no width, an integer of the model checker has 32 bits:
\* the values that reach to_bytes are carried in two halves <<hi, lo>>,
\* standing for hi * 2^16 + lo with lo in 0..65535, so that sizes and
\* offsets of 2^32 and more can be given.  PyInt(v) is the integer v in that
\* form (hi is negative exactly when v is) and AsInt gives it back.
PyInt(v) == CHOOSE int \in {<<x \div 65536, x % 65536>> : x \in {v}} : TRUE

AsInt(int) == int[1] * 65536 + int[2]

\* Mutant of ToBytesRaises: the value is masked to the width of the field
\* before it is converted, only a negative value is refused.
ToBytesRaisesOnlyNegative(v, n) == \E int \in {v} : int[1] < 0

\* int.to_bytes(n, byteorder='little') raises OverflowError for a negative
\* value and for one of 256^n or more.
ToBytesRaises(v, n) ==
    \E int \in {v} :
        \/ int[1] < 0
        \/ n <= 2 /\ (int[1] > 0 \/ int[2] \div Pow(256, n - 1) >= 256)
        \/ n > 2 /\ int[1] \div Pow(256, n - 3) >= 256

ToBytes(v, n) ==
    CHOOSE bytes \in {[i \in 1..n |-> IF i <= 2 THEN (int[2] \div Pow(256, i - 1)) % 256
                                    ELSE (int[1] \div Pow(256, i - 3)) % 256] : int \in {v}} : TRUE

\* int.from_bytes(b, 'little'): how a reader decodes a field.
RECURSIVE FromBytes(_)
FromBytes(b) == IF b = <<>> THEN 0 ELSE b[1] + 256 * FromBytes(Tail(b))

\* ------------------------------------------------------------- file system

\* The source files the senders are pointed at.  "gone" names no file:
\* os.stat and open raise FileNotFoundError for it.
Paths == {"f0", "f5", "f10", "f20", "f512", "gone"}

Exists(path) == path # "gone"

\* The bytes of each file, all different so that two sources are never
\* confused with one another.
FileSize(path) ==
    CASE path = "f0" -> 0
      [] path = "f5" -> 5
      [] path = "f10" -> 10
      [] path = "f20" -> 20
      [] path = "f512" -> 512
      [] OTHER -> 0

FileSeed(path) ==
    CASE path = "f5" -> 104
      [] path = "f10" -> 17
      [] path = "f20" -> 200
      [] path = "f512" -> 3
      [] OTHER -> 0

Content == [p \in Paths |-> [i \in 1..FileSize(p) |-> (FileSeed(p) + 7 * (i - 1)) % 256]]

\* os.stat(path) of an existing file.  f10 belongs to a user whose id needs
\* eight octal digits and f5 was last modified before 1980 (at the epoch);
\* the other files carry everyday metadata.  Times are whole seconds and the
\* local time zone is UTC.
Stat(path) ==
    [st_mode |-> 33188,
     st_uid |-> IF path = "f10" THEN 2097152 ELSE 1000,
     st_gid |-> 1000,
     st_size |-> CASE path = "max" -> <<65535, 65535>>
                   [] path = "huge" -> <<65536, 0>>
                   [] OTHER -> PyInt(Len(Content[path])),
     st_mtime |-> CASE path = "f5" -> 0
                    [] path = "f20" -> 1700000001
                    [] path = "f512" -> 1262304000
                    [] OTHER -> 1700000000]

\* f.read(n) on a handle at position pos: at most n bytes, empty at the end.
Read(path, pos, n) ==
    SubSeq(Content[path], pos + 1, Min(pos + n, Len(Content[path])))

\* ------------------------------------------------------------------ CRC-32

\* A CRC-32 is an unsigned 32-bit value.  TLC's integers are signed 32-bit,
\* so the model holds it as its four bytes, least significant first: the
\* bytes crc.to_bytes(4, byteorder='little') writes into a header.
Crc32Zero == <<0, 0, 0, 0>>

XorBytes(a, b) == [i \in 1..4 |-> BitXor(a[i], b[i])]

\* One entry of the CRC-32 table of zlib (reflected polynomial 0xEDB88320),
\* computed on the two 16-bit halves of the register.
RECURSIVE CrcTableEntry(_, _, _)
CrcTableEntry(hi, lo, k) ==
    IF k = 0 THEN <<lo % 256, lo \div 256, hi % 256, hi \div 256>>
    ELSE LET shi == hi \div 2
             slo == (lo \div 2) + 32768 * (hi % 2)
         IN  IF lo % 2 = 1
             THEN CrcTableEntry(BitXor(60856, shi), BitXor(33568, slo), k - 1)
             ELSE CrcTableEntry(shi, slo, k - 1)

CrcTable == [n \in 0..255 |-> CrcTableEntry(0, n, 8)]

RECURSIVE CrcFrom(_, _, _)
CrcFrom(data, i, reg) ==
    IF i > Len(data) THEN reg
    ELSE LET next == XorBytes(CrcTable[BitXor(reg[1], data[i])],
                              <<reg[2], reg[3], reg[4], 0>>)
         \* the test makes TLC compute next before it descends
         IN  IF Len(next) = 4 THEN CrcFrom(data, i + 1, next) ELSE next

\* zlib.crc32(data, value): the CRC-32 of data continued from value; the
\* register is inverted on entry and on exit.
zlib_crc32(data, value) ==
    XorBytes(CrcFrom(data, 1, XorBytes(value, <<255, 255, 255, 255>>)),
             <<255, 255, 255, 255>>)

\* Mutant of crc32_loop: zlib.crc32(s) without the running value, every
\* block starts a checksum of its own.
RECURSIVE crc32_loop_restarting(_, _, _)
crc32_loop_restarting(path, pos, hash) ==
    LET s == Read(path, pos, CRC32_CHUNK_SIZE)
        next == zlib_crc32(s, Crc32Zero)
    IN  IF s = <<>> THEN hash
        ELSE IF Len(next) = 4 THEN crc32_loop_restarting(path, pos + Len(s), next) ELSE next

\* crc32(filename) of an existing file: the file is read CRC32_CHUNK_SIZE
\* bytes at a time and each block continues the checksum of the ones before.
RECURSIVE crc32_loop(_, _, _)
crc32_loop(path, pos, hash) ==
    LET s == Read(path, pos, CRC32_CHUNK_SIZE)
        next == zlib_crc32(s, hash)
    IN  IF s = <<>> THEN hash
        ELSE IF Len(next) = 4 THEN crc32_loop(path, pos + Len(s), next) ELSE next

\* (each file's checksum is computed once and kept: the files do not change)
Crc32OfFile == [p \in Paths |-> crc32_loop(p, 0, Crc32Zero)]

crc32(filename) == Crc32OfFile[filename]

\* ------------------------------------------------------------- local time

\* datetime.fromtimestamp(t) for t >= 0 in UTC: the civil date and time of
\* day of t seconds after 1970-01-01 00:00:00.
FromTimestamp(t) ==
    LET days == t \div 86400
        rem == t % 86400
        z == days + 719468
        era == z \div 146097
        doe == z - era * 146097
        yoe == (doe - doe \div 1460 + doe \div 36524 - doe \div 146096) \div 365
        doy == doe - (365 * yoe + yoe \div 4 - yoe \div 100)
        mp == (5 * doy + 2) \div 153
        m == IF mp < 10 THEN mp + 3 ELSE mp - 9
    IN  [year |-> yoe + era * 400 + (IF m <= 2 THEN 1 ELSE 0),
         month |-> m,
         day |-> doy - (153 * mp + 2) \div 5 + 1,
         hour |-> rem \div 3600,
         minute |-> (rem % 3600) \div 60,
         second |-> rem % 60]

\* ----------------------------------------------------------- header codecs

\* Mutant of tar_header_chunk: the sum starts at 0, the eight bytes of the
\* checksum field are not counted as spaces.
tar_header_chunk_sum_from_zero(filename, filepath) ==
    LET stat == Stat(filepath)
        b0 == Zeros(512)
        b1 == SliceAssign(b0, 0, Len(filename), filename)
        b2 == SliceAssign(b1, 100, 107, RJust(oct(stat.st_mode), 7))
        b3 == SliceAssign(b2, 108, 115, RJust(oct(stat.st_uid), 7))
        b4 == SliceAssign(b3, 116, 123, RJust(oct(stat.st_gid), 7))
        b5 == SliceAssign(b4, 124, 135, RJust(oct(AsInt(stat.st_size)), 11))
        b6 == SliceAssign(b5, 136, 147, RJust(oct(stat.st_mtime), 11))
        b7 == IndexAssign(b6, 156, ZERO)
        checksum == RJust(oct(Reduce(b7, 0)), 6)
        b8 == SliceAssign(b7, 148, 154, checksum)
    IN  IndexAssign(b8, 155, SPACE)

\* tar_header_chunk(filename, filepath) for an existing filepath (os.stat
\* raises otherwise): the statements of the function in their order.
tar_header_chunk(filename, filepath) ==
    LET stat == Stat(filepath)
        b0 == Zeros(512)
        b1 == SliceAssign(b0, 0, Len(filename), filename)
        b2 == SliceAssign(b1, 100, 107, RJust(oct(stat.st_mode), 7))
        b3 == SliceAssign(b2, 108, 115, RJust(oct(stat.st_uid), 7))
        b4 == SliceAssign(b3, 116, 123, RJust(oct(stat.st_gid), 7))
        b5 == SliceAssign(b4, 124, 135, RJust(oct(AsInt(stat.st_size)), 11))
        b6 == SliceAssign(b5, 136, 147, RJust(oct(stat.st_mtime), 11))
        b7 == IndexAssign(b6, 156, ZERO)
        checksum == RJust(oct(Reduce(b7, 256)), 6)
        b8 == SliceAssign(b7, 148, 154, checksum)
    IN  IndexAssign(b8, 155, SPACE)

\* a | b of Python: negative as soon as one operand is negative (the value
\* is then of no use: to_bytes refuses it), the bitwise or otherwise.
\* (a and b are evaluated once, as the values of x and y)
PyOr(a, b) ==
    CHOOSE int \in {IF x < 0 \/ y < 0 THEN -1 ELSE BitOr(x, y) : x \in {a}, y \in {b}} : TRUE

\* The two 16-bit words the ZIP headers pack the modification time into.
DosTime(st_mtime) ==
    LET mtime == FromTimestamp(st_mtime)
    IN  PyOr(PyOr(mtime.second \div 2, Shl(mtime.minute, 5)), Shl(mtime.hour, 11))

DosDate(st_mtime) ==
    LET mtime == FromTimestamp(st_mtime)
    IN  PyOr(PyOr(mtime.day, Shl(mtime.month, 5)), Shl(mtime.year - 1980, 9))

\* Whether zip_local_file_header(filename, filepath, crc) raises: os.stat of
\* a missing file, or a to_bytes of a value that does not fit its field.
zip_local_file_header_raises(filename, filepath) ==
    \/ ~Exists(filepath)
    \/ ToBytesRaises(PyInt(DosTime(Stat(filepath).st_mtime)), 2)
    \/ ToBytesRaises(PyInt(DosDate(Stat(filepath).st_mtime)), 2)
    \/ ToBytesRaises(Stat(filepath).st_size, 4)
    \/ ToBytesRaises(PyInt(Len(filename)), 2)

\* zip_local_file_header(filename, filepath, crc) when it does not raise.
zip_local_file_header(filename, filepath, crc) ==
    LET stat == Stat(filepath)
        n == Len(filename)
        b0 == Zeros(30 + n)
        b1 == SliceAssign(b0, 0, 4, <<80, 75, 3, 4>>)
        b2 == SliceAssign(b1, 4, 6, <<10>>)
        b3 == SliceAssign(b2, 10, 12, ToBytes(PyInt(DosTime(stat.st_mtime)), 2))
        b4 == SliceAssign(b3, 12, 14, ToBytes(PyInt(DosDate(stat.st_mtime)), 2))
        b5 == SliceAssign(b4, 14, 18, crc)
        b6 == SliceAssign(b5, 18, 22, ToBytes(stat.st_size, 4))
        b7 == SliceAssign(b6, 22, 26, ToBytes(stat.st_size, 4))
        b8 == SliceAssign(b7, 26, 28, ToBytes(PyInt(n), 2))
    IN  SliceAssign(b8, 30, 30 + n, filename)

zip_central_directory_file_header_raises(filename, filepath, offset) ==
    \/ zip_local_file_header_raises(filename, filepath)
    \/ ToBytesRaises(offset, 4)

\* Mutant of zip_central_directory_file_header: the time, the date and the
\* sizes are written at the offsets they have in the local file header.
zip_central_directory_file_header_local_offsets(filename, filepath, crc, offset) ==
    LET stat == Stat(filepath)
        n == Len(filename)
        b0 == Zeros(46 + n)
        b1 == SliceAssign(b0, 0, 4, <<80, 75, 1, 2>>)
        b2 == SliceAssign(b1, 4, 6, <<10>>)
        b3 == SliceAssign(b2, 6, 8, <<10>>)
        b4 == SliceAssign(b3, 10, 12, ToBytes(PyInt(DosTime(stat.st_mtime)), 2))
        b5 == SliceAssign(b4, 12, 14, ToBytes(PyInt(DosDate(stat.st_mtime)), 2))
        b6 == SliceAssign(b5, 16, 20, crc)
        b7 == SliceAssign(b6, 18, 22, ToBytes(stat.st_size, 4))
        b8 == SliceAssign(b7, 22, 26, ToBytes(stat.st_size, 4))
        b9 == SliceAssign(b8, 28, 30, ToBytes(PyInt(n), 2))
        b10 == SliceAssign(b9, 42, 46, ToBytes(offset, 4))
    IN  SliceAssign(b10, 46, 46 + n, filename)

\* zip_central_directory_file_header(filename, filepath, crc, offset) when
\* it does not raise.
zip_central_directory_file_header(filename, filepath, crc, offset) ==
    LET stat == Stat(filepath)
        n == Len(filename)
        b0 == Zeros(46 + n)
        b1 == SliceAssign(b0, 0, 4, <<80, 75, 1, 2>>)
        b2 == SliceAssign(b1, 4, 6, <<10>>)
        b3 == SliceAssign(b2, 6, 8, <<10>>)
        b4 == SliceAssign(b3, 12, 14, ToBytes(PyInt(DosTime(stat.st_mtime)), 2))
        b5 == SliceAssign(b4, 14, 16, ToBytes(PyInt(DosDate(stat.st_mtime)), 2))
        b6 == SliceAssign(b5, 16, 20, crc)
        b7 == SliceAssign(b6, 20, 24, ToBytes(stat.st_size, 4))
        b8 == SliceAssign(b7, 24, 28, ToBytes(stat.st_size, 4))
        b9 == SliceAssign(b8, 28, 30, ToBytes(PyInt(n), 2))
        b10 == SliceAssign(b9, 42, 46, ToBytes(offset, 4))
    IN  SliceAssign(b10, 46, 46 + n, filename)

zip_end_of_central_directory_raises(items_number, central_directory_size, central_directory_offset) ==
    \/ ToBytesRaises(items_number, 2)
    \/ ToBytesRaises(central_directory_size, 4)
    \/ ToBytesRaises(central_directory_offset, 4)

\* Mutant of zip_end_of_central_directory: the size and the offset of the
\* central directory are written into each other's field.
zip_end_of_central_directory_swapped(items_number, central_directory_size, central_directory_offset) ==
    LET b0 == Zeros(22)
        b1 == SliceAssign(b0, 0, 4, <<80, 75, 5, 6>>)
        b2 == SliceAssign(b1, 8, 10, ToBytes(items_number, 2))
        b3 == SliceAssign(b2, 10, 12, ToBytes(items_number, 2))
        b4 == SliceAssign(b3, 12, 16, ToBytes(central_directory_offset, 4))
    IN  SliceAssign(b4, 16, 20, ToBytes(central_directory_size, 4))

\* zip_end_of_central_directory(...) when it does not raise.
zip_end_of_central_directory(items_number, central_directory_size, central_directory_offset) ==
    LET b0 == Zeros(22)
        b1 == SliceAssign(b0, 0, 4, <<80, 75, 5, 6>>)
        b2 == SliceAssign(b1, 8, 10, ToBytes(items_number, 2))
        b3 == SliceAssign(b2, 10, 12, ToBytes(items_number, 2))
        b4 == SliceAssign(b3, 12, 16, ToBytes(central_directory_size, 4))
    IN  SliceAssign(b4, 16, 20, ToBytes(central_directory_offset, 4))

\* ------------------------------------------------------------------- state

\* The archive paths add_file is called with: "a.txt", "b.txt" and "".
NameA == <<97, 46, 116, 120, 116>>

NameB == <<98, 46, 116, 120, 116>>

NameEmpty == <<>>

Names == {NameA, NameB, NameEmpty}

\* TarSender and ZipSender instances.
Kinds == {"tar", "zip"}

\* The sender objects, and those a run of Spec works with.
Senders == {1, 2}

Active == {1}

VARIABLES
    kind,        \* kind[s]: the class of sender s
    files,       \* files[s]: self.files, the dict as its items in order
    lastAdd,     \* lastAdd[s][name]: the filepath of the latest add_file(name, _)
    readded,     \* readded[s]: some add_file gave a registered path another source
    advertised,  \* advertised[s]: the Content-Length of response(), -1 before it
    gen,         \* gen[s]: the frame of the generator generate() of sender s
    sent,        \* sent[s]: the chunks the generator has yielded so far
    fsops,       \* fsops[s]: the os.stat, open and read calls made for sender s
    measured,    \* measured[s]: the content_length() calls made on sender s
    call,        \* the latest call of a header function made on its own
    scanner      \* the configuration of the scanner and the frame of scan()

vars ==
    <<kind, files, lastAdd, readded, advertised, gen, sent, fsops, measured, call, scanner>>

\* A chunk as the consumer receives it, tagged with the yield statement it
\* comes from and the position of the entry in the iteration.
Chunk(tag, entry, bytes) == [tag |-> tag, entry |-> entry, bytes |-> bytes]

\* d[k] = v on a dict held as a function.
DictSet(d, k, v) == [x \in DOMAIN d \cup {k} |-> IF x = k THEN v ELSE d[x]]

EmptyDict == [x \in {} |-> 0]

\* The generator frame before generator() is called (pc = "new"); the locals
\* hold placeholders until the code assigns them.
NoGen ==
    [pc |-> "new", raised |-> "", stopped |-> FALSE, earlier |-> 0,
     idx |-> 0, cd_idx |-> 0,
     name |-> <<>>, file |-> "", opened |-> {}, fpos |-> 0,
     bytes_sent |-> 0, current_byte |-> 0,
     local_offsets |-> EmptyDict, crcs |-> EmptyDict,
     central_directory_size |-> 0, centra_directory_offset |-> 0,
     di_used |-> 0]

\* No call of os.stat, of open or of read has been made.
NoOps == [stat |-> 0, open |-> 0, read |-> 0]

\* No call of content_length() has been made: calls counts them and value is
\* what the latest returned (-1 before the first, -2 when it raised).
NoMeasure == [calls |-> 0, value |-> -1]

\* No header function has been called on its own.
NoCall == [fn |-> "", args |-> <<>>, raised |-> FALSE, result |-> <<>>]

\* scan() has not been called; the configuration is config.local.py with
\* its six LEDs and no GPIO chip.
NoScan ==
    [LEDS_UUIDS |-> 6, GPIO_CHIP |-> FALSE, pc |-> "idle", on_and_off |-> TRUE,
     count |-> 0, file_paths |-> <<>>, raised |-> "", events |-> <<>>]

\* The handler makes st calls of os.stat, op of open and rd of read.
Did(s, st, op, rd) ==
    fsops' = [fsops EXCEPT ![s] = [stat |-> @.stat + st, open |-> @.open + op,
                                   read |-> @.read + rd]]

Init ==
    /\ kind \in {k \in [Senders -> Kinds] : \A s \in Senders \ Active : k[s] = "tar"}
    /\ files = [s \in Senders |-> <<>>]
    /\ lastAdd = [s \in Senders |-> EmptyDict]
    /\ readded = [s \in Senders |-> FALSE]
    /\ advertised = [s \in Senders |-> -1]
    /\ gen = [s \in Senders |-> NoGen]
    /\ sent = [s \in Senders |-> <<>>]
    /\ fsops = [s \in Senders |-> NoOps]
    /\ measured = [s \in Senders |-> NoMeasure]
    /\ call = NoCall
    /\ scanner = NoScan

\* ------------------------------------------------------------ registration

HasName(fs, filename) == \E i \in 1..Len(fs) : fs[i].name = filename

\* Mutant of add_file: a registered archive path keeps its first source.
add_file_keep_first(fs, filename, filepath) ==
    IF HasName(fs, filename) THEN fs
    ELSE Append(fs, [name |-> filename, file |-> filepath])

\* Mutant of add_file: a registered archive path is removed and registered
\* again, so it moves behind the paths registered after it.
add_file_move_to_end(fs, filename, filepath) ==
    Append(SelectSeq(fs, LAMBDA e : e.name # filename),
           [name |-> filename, file |-> filepath])

\* self.files[filename] = filepath: a registered key keeps its place and
\* takes the new value, a new key goes last.
add_file(fs, filename, filepath) ==
    IF HasName(fs, filename)
    THEN [i \in 1..Len(fs) |->
            IF fs[i].name = filename
            THEN [name |-> filename, file |-> filepath] ELSE fs[i]]
    ELSE Append(fs, [name |-> filename, file |-> filepath])

\* Mutant of AddFile: add_file looks the source file up with os.stat and
\* raises when it is missing, leaving self.files as it was.
AddFileChecked(s, filename, filepath) ==
    /\ gen[s].pc = "new"
    /\ HasName(files[s], filename) \/ Len(files[s]) < MaxEntries
    /\ Did(s, 1, 0, 0)
    /\ IF Exists(filepath)
       THEN /\ files' = [files EXCEPT ![s] = add_file(@, filename, filepath)]
            /\ lastAdd' = [lastAdd EXCEPT ![s] = DictSet(@, filename, filepath)]
            /\ readded' = [readded EXCEPT ![s] =
                             @ \/ (filename \in DOMAIN lastAdd[s]
                                      /\ lastAdd[s][filename] # filepath)]
            /\ UNCHANGED gen
       ELSE /\ gen' = [gen EXCEPT ![s] = [@ EXCEPT !.pc = "error", !.raised = "add_file"]]
            /\ UNCHANGED <<files, lastAdd, readded, call, scanner>>
    /\ UNCHANGED <<kind, advertised, sent, measured, call, scanner>>

\* Mutant of AddFile: files is one dict of the class, shared by every sender.
AddFileShared(s, filename, filepath) ==
    /\ gen[s].pc = "new"
    /\ HasName(files[s], filename) \/ Len(files[s]) < MaxEntries
    /\ files' = [t \in Senders |-> add_file(files[s], filename, filepath)]
    /\ lastAdd' = [lastAdd EXCEPT ![s] = DictSet(@, filename, filepath)]
    /\ readded' = [readded EXCEPT ![s] =
                     @ \/ (filename \in DOMAIN lastAdd[s] /\ lastAdd[s][filename] # filepath)]
    /\ UNCHANGED <<kind, advertised, gen, sent, fsops, measured, call, scanner>>

\* add_file on a sender that has not started streaming.
AddFile(s, filename, filepath) ==
    /\ gen[s].pc = "new"
    /\ HasName(files[s], filename) \/ Len(files[s]) < MaxEntries
    /\ files' = [files EXCEPT ![s] = add_file(@, filename, filepath)]
    /\ lastAdd' = [lastAdd EXCEPT ![s] = DictSet(@, filename, filepath)]
    /\ readded' = [readded EXCEPT ![s] =
                     @ \/ (filename \in DOMAIN lastAdd[s] /\ lastAdd[s][filename] # filepath)]
    /\ UNCHANGED <<kind, advertised, gen, sent, fsops, measured, call, scanner>>

\* ---------------------------------------------------------- content_length

\* os.stat raises for the first missing file.
content_length_raises(fs) == \E i \in 1..Len(fs) : ~Exists(fs[i].file)

\* TarSender.content_length
RECURSIVE tar_content_length_from(_, _, _)
tar_content_length_from(fs, i, length) ==
    IF i > Len(fs) THEN length
    ELSE LET st_size == AsInt(Stat(fs[i].file).st_size)
         IN  tar_content_length_from(fs, i + 1,
                 length + 512 + st_size + (512 - (st_size % 512)))

tar_content_length(fs) == tar_content_length_from(fs, 1, 0)

\* ZipSender.content_length
RECURSIVE zip_content_length_from(_, _, _)
zip_content_length_from(fs, i, length) ==
    IF i > Len(fs) THEN length + 22
    ELSE zip_content_length_from(fs, i + 1,
             length + 76 + 2 * Len(fs[i].name) + AsInt(Stat(fs[i].file).st_size))

zip_content_length(fs) == zip_content_length_from(fs, 1, 0)

content_length(k, fs) ==
    IF k = "tar" THEN tar_content_length(fs) ELSE zip_content_length(fs)

\* The position in self.files of the first entry whose file is missing: the
\* number of os.stat calls content_length() makes before it raises.
FirstMissing(fs) ==
    CHOOSE i \in 1..Len(fs) :
        ~Exists(fs[i].file) /\ \A j \in 1..(i - 1) : Exists(fs[j].file)

\* response(): content_length() is called, then generator(); the generator
\* object is created suspended before its first statement.
Response(s) ==
    /\ gen[s].pc = "new"
    /\ ~content_length_raises(files[s])
    /\ advertised' = [advertised EXCEPT ![s] = content_length(kind[s], files[s])]
    /\ gen' = [gen EXCEPT ![s] = [@ EXCEPT !.pc = "start"]]
    /\ Did(s, Len(files[s]), 0, 0)
    /\ UNCHANGED <<kind, files, lastAdd, readded, sent, measured, call, scanner>>

\* response() when content_length() raises: no generator is created.
ResponseRaise(s) ==
    /\ gen[s].pc = "new"
    /\ content_length_raises(files[s])
    /\ gen' = [gen EXCEPT ![s] = [@ EXCEPT !.pc = "error", !.raised = "content_length"]]
    /\ Did(s, FirstMissing(files[s]), 0, 0)
    /\ UNCHANGED <<kind, files, lastAdd, readded, advertised, sent, measured, call, scanner>>

\* generator() called directly: no length is computed.
Generator(s) ==
    /\ gen[s].pc = "new"
    /\ gen' = [gen EXCEPT ![s] = [@ EXCEPT !.pc = "start"]]
    /\ UNCHANGED <<kind, files, lastAdd, readded, advertised, sent, measured, fsops, call, scanner>>

\* Mutant of ContentLength: the length is found by opening each file and
\* reading it to its end.
ContentLengthByReading(s) ==
    /\ gen[s].pc = "new"
    /\ measured[s].calls < MaxCalls
    /\ measured' = [measured EXCEPT ![s] =
                      [calls |-> @.calls + 1,
                       value |-> IF content_length_raises(files[s]) THEN -2
                                 ELSE content_length(kind[s], files[s])]]
    /\ IF content_length_raises(files[s])
       THEN Did(s, 0, FirstMissing(files[s]), FirstMissing(files[s]) - 1)
       ELSE Did(s, 0, Len(files[s]), Len(files[s]))
    /\ UNCHANGED <<kind, files, lastAdd, readded, advertised, gen, sent, call, scanner>>

\* content_length() called by itself on a sender that has not started
\* streaming: it returns the length or raises what os.stat raises, and the
\* sender is as it was.
ContentLength(s) ==
    /\ gen[s].pc = "new"
    /\ measured[s].calls < MaxCalls
    /\ measured' = [measured EXCEPT ![s] =
                      [calls |-> @.calls + 1,
                       value |-> IF content_length_raises(files[s]) THEN -2
                                 ELSE content_length(kind[s], files[s])]]
    /\ IF content_length_raises(files[s])
       THEN Did(s, FirstMissing(files[s]), 0, 0)
       ELSE Did(s, Len(files[s]), 0, 0)
    /\ UNCHANGED <<kind, files, lastAdd, readded, advertised, gen, sent, call, scanner>>

\* The generator is suspended: created and not started, or at a yield.
Suspended(s) ==
    gen[s].pc \in {"start", "hdr", "data", "pad", "zhdr", "zdata", "zcd", "zend"}

\* The generator has returned, has raised or has been closed.
Finished(s) ==
    \/ gen[s].pc \in {"done", "closed"}
    \/ gen[s].pc = "error" /\ gen[s].raised # "content_length"

\* Mutant of Close: the generator is finished but the file it was reading
\* stays open.
CloseLeavingFileOpen(s) ==
    /\ Suspended(s)
    /\ gen' = [gen EXCEPT ![s] = [@ EXCEPT !.pc = "closed"]]
    /\ UNCHANGED <<kind, files, lastAdd, readded, advertised, sent, fsops, measured, call, scanner>>

\* close() on the suspended generator: GeneratorExit is raised at the yield,
\* no except clause catches it, the with block the yield is in closes its
\* file and the generator is finished.  (A generator that has not started
\* runs no code at all.)
Close(s) ==
    /\ Suspended(s)
    /\ gen' = [gen EXCEPT ![s] = [@ EXCEPT !.pc = "closed", !.opened = {}]]
    /\ UNCHANGED <<kind, files, lastAdd, readded, advertised, sent, fsops, measured, call, scanner>>

\* next() on a finished generator: StopIteration, and no code of generate()
\* is run.
PullFinished(s) ==
    /\ Finished(s)
    /\ ~gen[s].stopped
    /\ gen' = [gen EXCEPT ![s] = [@ EXCEPT !.stopped = TRUE]]
    /\ UNCHANGED <<kind, files, lastAdd, readded, advertised, sent, fsops, measured, call, scanner>>

\* generator() called again once the previous generator is exhausted: a new
\* frame, suspended before its first statement; sent[s] starts again as the
\* chunks of the new generator.
GeneratorAgain(s) ==
    /\ gen[s].pc = "done"
    /\ gen[s].earlier + 1 < MaxGenerators
    /\ gen' = [gen EXCEPT ![s] =
                 [NoGen EXCEPT !.pc = "start", !.earlier = gen[s].earlier + 1]]
    /\ sent' = [sent EXCEPT ![s] = <<>>]
    /\ UNCHANGED <<kind, files, lastAdd, readded, advertised, fsops, measured, call, scanner>>

Yield(s, chunk) == sent' = [sent EXCEPT ![s] = Append(@, chunk)]

\* ----------------------------------------------------- TarSender.generator

\* Each action below is one pull of the consumer: the code from the yield
\* the generator is suspended at (gen[s].pc) up to the next yield, to the
\* end of the generator or to the exception that ends it.  The source files
\* do not change while a sender streams, so a file that os.stat found can be
\* opened and read.

\* Resumed after the yield of a header, the generator opens the file (the
\* with statement) before it reads; resumed anywhere else it opens nothing.
OpensOnResume(s) == IF gen[s].pc \in {"hdr", "zhdr"} THEN 1 ELSE 0

\* Resumed in the read loop, the generator calls f.read once: the read that
\* returns the next chunk, or the empty read that ends the loop.
ReadsOnResume(s) == IF gen[s].pc \in {"hdr", "data", "zhdr", "zdata"} THEN 1 ELSE 0

\* The fh.read calls of crc32: one per block, and the empty one that ends it.
CrcReads(path) == (FileSize(path) + CRC32_CHUNK_SIZE - 1) \div CRC32_CHUNK_SIZE + 1

\* The generator is at the head of the for loop: before its first statement,
\* or resumed after the padding of an entry (which leaves the with block).
\* Mutant of DictIterNext: the loop iterates a copy of the items, which
\* never notices a change of the dict.
DictIterNextOverCopy(s) == gen[s].pc \in {"start", "pad", "hdr", "data", "zhdr", "zdata", "zcd"}

\* The next() of the iterator over self.files.items() that the for loop
\* holds: the loop's first step creates the iterator, which records the
\* size of the dict (di_used), and every later step raises RuntimeError
\* when the dict has another size by then.
DictIterNext(s) == gen[s].pc = "start" \/ gen[s].di_used = Len(files[s])

TarAtLoopHead(s) == kind[s] = "tar" /\ gen[s].pc \in {"start", "pad"} /\ DictIterNext(s)

\* Next entry: yield tar_header_chunk(name, file).
TarHeader(s) ==
    /\ TarAtLoopHead(s)
    /\ gen[s].idx < Len(files[s])
    /\ LET e == files[s][gen[s].idx + 1]
       IN  /\ Exists(e.file)
           /\ gen' = [gen EXCEPT ![s] =
                        [@ EXCEPT !.di_used = Len(files[s]), !.pc = "hdr", !.idx = @ + 1, !.name = e.name,
                                  !.file = e.file, !.opened = {}]]
           /\ Yield(s, Chunk("header", gen[s].idx + 1, tar_header_chunk(e.name, e.file)))
    /\ Did(s, 1, 0, 0)
    /\ UNCHANGED <<kind, files, lastAdd, readded, advertised, measured, call, scanner>>

\* Mutant of TarHeaderRaise: the missing file is found out at open, after a
\* header has been yielded for its entry.
TarHeaderRaiseAtOpen(s) ==
    /\ TarAtLoopHead(s)
    /\ gen[s].idx < Len(files[s])
    /\ LET e == files[s][gen[s].idx + 1]
       IN  /\ ~Exists(e.file)
           /\ gen' = [gen EXCEPT ![s] =
                        [@ EXCEPT !.di_used = Len(files[s]), !.pc = "error", !.raised = "tar_header_chunk",
                                  !.idx = @ + 1, !.name = e.name, !.file = e.file,
                                  !.opened = {}]]
           /\ Yield(s, Chunk("header", gen[s].idx + 1, Zeros(512)))
    /\ Did(s, 0, 1, 0)
    /\ UNCHANGED <<kind, files, lastAdd, readded, advertised, measured, call, scanner>>

\* Next entry, and os.stat in tar_header_chunk raises.
TarHeaderRaise(s) ==
    /\ TarAtLoopHead(s)
    /\ gen[s].idx < Len(files[s])
    /\ LET e == files[s][gen[s].idx + 1]
       IN  /\ ~Exists(e.file)
           /\ gen' = [gen EXCEPT ![s] =
                        [@ EXCEPT !.di_used = Len(files[s]), !.pc = "error", !.raised = "tar_header_chunk",
                                  !.idx = @ + 1, !.name = e.name, !.file = e.file,
                                  !.opened = {}]]
    /\ Did(s, 1, 0, 0)
    /\ UNCHANGED <<kind, files, lastAdd, readded, advertised, sent, measured, call, scanner>>

\* Mutant of TarStop: the conventional end marker, two blocks of zeros, is
\* written after the last entry.
TarStopWithEndMarker(s) ==
    /\ TarAtLoopHead(s)
    /\ gen[s].idx >= Len(files[s])
    /\ gen' = [gen EXCEPT ![s] = [@ EXCEPT !.di_used = Len(files[s]), !.pc = "done", !.opened = {}]]
    /\ Yield(s, Chunk("end", 0, Zeros(1024)))
    /\ UNCHANGED <<kind, files, lastAdd, readded, advertised, measured, fsops, call, scanner>>

\* Mutant of TarStop: after the last entry the loop starts again at the
\* first.
TarStopRewinds(s) ==
    /\ TarAtLoopHead(s)
    /\ gen[s].idx >= Len(files[s])
    /\ gen' = [gen EXCEPT ![s] = [@ EXCEPT !.pc = "pad", !.idx = 0, !.opened = {}]]
    /\ UNCHANGED <<kind, files, lastAdd, readded, advertised, sent, measured, fsops, call, scanner>>

\* No entry is left: the generator returns.
\* Mutant of TarStop: the file is opened without a with block, so the
\* handle of the last entry is still open when the generator returns.
TarStopLeavingFileOpen(s) ==
    /\ TarAtLoopHead(s)
    /\ gen[s].idx >= Len(files[s])
    /\ gen' = [gen EXCEPT ![s] = [@ EXCEPT !.di_used = Len(files[s]), !.pc = "done"]]
    /\ UNCHANGED <<kind, files, lastAdd, readded, advertised, sent, measured, fsops, call, scanner>>

TarStop(s) ==
    /\ TarAtLoopHead(s)
    /\ gen[s].idx >= Len(files[s])
    /\ gen' = [gen EXCEPT ![s] = [@ EXCEPT !.di_used = Len(files[s]), !.pc = "done", !.opened = {}]]
    /\ UNCHANGED <<kind, files, lastAdd, readded, advertised, sent, measured, fsops, call, scanner>>

\* The generator is in the read loop of the entry: resumed after the header
\* (bytes_sent = 0 and the file is opened) or after a payload chunk.
InReadLoop(s) == gen[s].pc \in {"hdr", "data", "zhdr", "zdata"}

ReadPos(s) == IF gen[s].pc \in {"hdr", "zhdr"} THEN 0 ELSE gen[s].fpos

BytesSent(s) == IF gen[s].pc = "hdr" THEN 0 ELSE gen[s].bytes_sent

\* Mutant of NextRead: f.read() without a size, the rest of the file.
NextReadWholeFile(s) == Read(gen[s].file, ReadPos(s), FileSize(gen[s].file))

\* bytes = f.read(CHUNK_SIZE)
NextRead(s) == Read(gen[s].file, ReadPos(s), CHUNK_SIZE)

\* The read returns bytes: yield them.
TarPayload(s) ==
    /\ kind[s] = "tar" /\ InReadLoop(s)
    /\ NextRead(s) # <<>>
    /\ gen' = [gen EXCEPT ![s] =
                 [@ EXCEPT !.pc = "data", !.opened = {gen[s].file},
                           !.fpos = ReadPos(s) + Len(NextRead(s)),
                           !.bytes_sent = BytesSent(s) + Len(NextRead(s))]]
    /\ Yield(s, Chunk("payload", gen[s].idx, NextRead(s)))
    /\ Did(s, 0, OpensOnResume(s), 1)
    /\ UNCHANGED <<kind, files, lastAdd, readded, advertised, measured, call, scanner>>

\* Mutant of tar_padding: no padding after a payload that already fills its
\* last block, as the tar format has it.
tar_padding_to_block(bytes_sent) == Zeros((512 - (bytes_sent % 512)) % 512)

\* The padding yielded at the end of the file, still inside the with block.
tar_padding(bytes_sent) == Zeros(512 - (bytes_sent % 512))

\* The read returns nothing: break, and yield the padding.
TarPadding(s) ==
    /\ kind[s] = "tar" /\ InReadLoop(s)
    /\ NextRead(s) = <<>>
    /\ gen' = [gen EXCEPT ![s] =
                 [@ EXCEPT !.pc = "pad", !.opened = {gen[s].file},
                           !.fpos = ReadPos(s), !.bytes_sent = BytesSent(s)]]
    /\ Yield(s, Chunk("padding", gen[s].idx, tar_padding(BytesSent(s))))
    /\ Did(s, 0, OpensOnResume(s), 1)
    /\ UNCHANGED <<kind, files, lastAdd, readded, advertised, measured, call, scanner>>

\* ----------------------------------------------------- ZipSender.generator

\* The generator is at the head of the first for loop: before its first
\* statement, or in the read loop of an entry whose read returns nothing
\* (break, the with block closes the file, next iteration).
ZipAtLoopHead(s) ==
    /\ kind[s] = "zip"
    /\ \/ gen[s].pc = "start"
       \/ InReadLoop(s) /\ NextRead(s) = <<>>
    /\ DictIterNext(s)

\* Next entry: crcs[name] = crc32(file), local_offsets[name] = current_byte,
\* yield zip_local_file_header(name, file, crcs[name]).
ZipLocal(s) ==
    /\ ZipAtLoopHead(s)
    /\ gen[s].idx < Len(files[s])
    /\ LET e == files[s][gen[s].idx + 1]
           crc == crc32(e.file)
           chunk == zip_local_file_header(e.name, e.file, crc)
       IN  /\ Exists(e.file)
           /\ ~zip_local_file_header_raises(e.name, e.file)
           /\ gen' = [gen EXCEPT ![s] =
                        [@ EXCEPT !.di_used = Len(files[s]), !.pc = "zhdr", !.idx = @ + 1, !.name = e.name,
                                  !.file = e.file, !.opened = {},
                                  !.crcs = DictSet(@, e.name, crc),
                                  !.local_offsets = DictSet(@, e.name, gen[s].current_byte),
                                  !.current_byte = @ + Len(chunk)]]
           /\ Yield(s, Chunk("local", gen[s].idx + 1, chunk))
    /\ Did(s, 1, OpensOnResume(s) + 1,
           ReadsOnResume(s) + CrcReads(files[s][gen[s].idx + 1].file))
    /\ UNCHANGED <<kind, files, lastAdd, readded, advertised, measured, call, scanner>>

\* Next entry, and open in crc32 or a statement of zip_local_file_header
\* raises.
\* Mutant of ZipLocalRaise: the error is caught and the archive is closed
\* with an end record over the entries sent so far before it is raised again.
ZipLocalRaiseWritingEnd(s) ==
    /\ ZipAtLoopHead(s)
    /\ gen[s].idx < Len(files[s])
    /\ LET e == files[s][gen[s].idx + 1]
       IN  /\ ~Exists(e.file) \/ zip_local_file_header_raises(e.name, e.file)
           /\ gen' = [gen EXCEPT ![s] =
                        [@ EXCEPT !.di_used = Len(files[s]), !.pc = "error",
                                  !.raised = IF Exists(e.file)
                                             THEN "zip_local_file_header" ELSE "crc32",
                                  !.idx = @ + 1, !.name = e.name, !.file = e.file,
                                  !.opened = {}]]
           /\ Yield(s, Chunk("end", 0,
                             zip_end_of_central_directory(
                                 PyInt(gen[s].idx), PyInt(0), PyInt(gen[s].current_byte))))
    /\ LET file == files[s][gen[s].idx + 1].file
       IN  IF Exists(file)
           THEN Did(s, 1, OpensOnResume(s) + 1, ReadsOnResume(s) + CrcReads(file))
           ELSE Did(s, 0, OpensOnResume(s) + 1, ReadsOnResume(s))
    /\ UNCHANGED <<kind, files, lastAdd, readded, advertised, measured, call, scanner>>

\* Mutant of ZipLocalRaise: the signature of the local header is sent
\* before the CRC-32 and the header fields are computed.
ZipLocalRaiseAfterSignature(s) ==
    /\ ZipAtLoopHead(s)
    /\ gen[s].idx < Len(files[s])
    /\ LET e == files[s][gen[s].idx + 1]
       IN  /\ ~Exists(e.file) \/ zip_local_file_header_raises(e.name, e.file)
           /\ gen' = [gen EXCEPT ![s] =
                        [@ EXCEPT !.di_used = Len(files[s]), !.pc = "error",
                                  !.raised = IF Exists(e.file)
                                             THEN "zip_local_file_header" ELSE "crc32",
                                  !.idx = @ + 1, !.name = e.name, !.file = e.file,
                                  !.opened = {}]]
           /\ Yield(s, Chunk("local", gen[s].idx + 1, <<80, 75, 3, 4>>))
    /\ LET file == files[s][gen[s].idx + 1].file
       IN  IF Exists(file)
           THEN Did(s, 1, OpensOnResume(s) + 1, ReadsOnResume(s) + CrcReads(file))
           ELSE Did(s, 0, OpensOnResume(s) + 1, ReadsOnResume(s))
    /\ UNCHANGED <<kind, files, lastAdd, readded, advertised, measured, call, scanner>>

ZipLocalRaise(s) ==
    /\ ZipAtLoopHead(s)
    /\ gen[s].idx < Len(files[s])
    /\ LET e == files[s][gen[s].idx + 1]
       IN  /\ ~Exists(e.file) \/ zip_local_file_header_raises(e.name, e.file)
           /\ gen' = [gen EXCEPT ![s] =
                        [@ EXCEPT !.di_used = Len(files[s]), !.pc = "error",
                                  !.raised = IF Exists(e.file)
                                             THEN "zip_local_file_header" ELSE "crc32",
                                  !.idx = @ + 1, !.name = e.name, !.file = e.file,
                                  !.opened = {}]]
    /\ LET file == files[s][gen[s].idx + 1].file
       IN  IF Exists(file)
           THEN Did(s, 1, OpensOnResume(s) + 1, ReadsOnResume(s) + CrcReads(file))
           ELSE Did(s, 0, OpensOnResume(s) + 1, ReadsOnResume(s))
    /\ UNCHANGED <<kind, files, lastAdd, readded, advertised, sent, measured, call, scanner>>

\* Mutant of ZipPayload: the payload bytes are not added to current_byte.
ZipPayloadNotCounted(s) ==
    /\ kind[s] = "zip" /\ InReadLoop(s)
    /\ NextRead(s) # <<>>
    /\ gen' = [gen EXCEPT ![s] =
                 [@ EXCEPT !.pc = "zdata", !.opened = {gen[s].file},
                           !.fpos = ReadPos(s) + Len(NextRead(s))]]
    /\ Yield(s, Chunk("payload", gen[s].idx, NextRead(s)))
    /\ Did(s, 0, OpensOnResume(s), 1)
    /\ UNCHANGED <<kind, files, lastAdd, readded, advertised, measured, call, scanner>>

\* The read returns bytes: current_byte += len(bytes), yield them.
ZipPayload(s) ==
    /\ kind[s] = "zip" /\ InReadLoop(s)
    /\ NextRead(s) # <<>>
    /\ gen' = [gen EXCEPT ![s] =
                 [@ EXCEPT !.pc = "zdata", !.opened = {gen[s].file},
                           !.fpos = ReadPos(s) + Len(NextRead(s)),
                           !.current_byte = @ + Len(NextRead(s))]]
    /\ Yield(s, Chunk("payload", gen[s].idx, NextRead(s)))
    /\ Did(s, 0, OpensOnResume(s), 1)
    /\ UNCHANGED <<kind, files, lastAdd, readded, advertised, measured, call, scanner>>

\* The first loop is over and the second begins (central_directory_size = 0,
\* centra_directory_offset = current_byte), or the generator is resumed after
\* a central directory header.
ZipFirstLoopOver(s) == ZipAtLoopHead(s) /\ gen[s].idx >= Len(files[s])

ZipInSecondLoop(s) ==
    ZipFirstLoopOver(s) \/ (kind[s] = "zip" /\ gen[s].pc = "zcd" /\ DictIterNext(s))

CdIdx(s) == IF ZipFirstLoopOver(s) THEN 0 ELSE gen[s].cd_idx

CdSize(s) == IF ZipFirstLoopOver(s) THEN 0 ELSE gen[s].central_directory_size

CdOffset(s) ==
    IF ZipFirstLoopOver(s) THEN gen[s].current_byte ELSE gen[s].centra_directory_offset

\* Mutant of ZipCentral: the CRC-32 is computed again for the central
\* directory header, the file is opened and read once more.
ZipCentralRecomputingCrc(s) ==
    /\ ZipInSecondLoop(s)
    /\ CdIdx(s) < Len(files[s])
    /\ LET e == files[s][CdIdx(s) + 1]
           chunk == zip_central_directory_file_header(
                        e.name, e.file, crc32(e.file),
                        PyInt(gen[s].local_offsets[e.name]))
       IN  /\ ~zip_central_directory_file_header_raises(
                  e.name, e.file, PyInt(gen[s].local_offsets[e.name]))
           /\ gen' = [gen EXCEPT ![s] =
                        [@ EXCEPT !.di_used = Len(files[s]), !.pc = "zcd", !.cd_idx = CdIdx(s) + 1,
                                  !.name = e.name, !.file = e.file, !.opened = {},
                                  !.central_directory_size = CdSize(s) + Len(chunk),
                                  !.centra_directory_offset = CdOffset(s),
                                  !.current_byte = @ + Len(chunk)]]
           /\ Yield(s, Chunk("central", CdIdx(s) + 1, chunk))
           /\ Did(s, 1, OpensOnResume(s) + 1, ReadsOnResume(s) + CrcReads(e.file))
    /\ UNCHANGED <<kind, files, lastAdd, readded, advertised, measured, call, scanner>>

\* Next entry of the second loop: yield its central directory header.
ZipCentral(s) ==
    /\ ZipInSecondLoop(s)
    /\ CdIdx(s) < Len(files[s])
    /\ LET e == files[s][CdIdx(s) + 1]
           chunk == zip_central_directory_file_header(
                        e.name, e.file, gen[s].crcs[e.name],
                        PyInt(gen[s].local_offsets[e.name]))
       IN  /\ ~zip_central_directory_file_header_raises(
                  e.name, e.file, PyInt(gen[s].local_offsets[e.name]))
           /\ gen' = [gen EXCEPT ![s] =
                        [@ EXCEPT !.di_used = Len(files[s]), !.pc = "zcd", !.cd_idx = CdIdx(s) + 1,
                                  !.name = e.name, !.file = e.file, !.opened = {},
                                  !.central_directory_size = CdSize(s) + Len(chunk),
                                  !.centra_directory_offset = CdOffset(s),
                                  !.current_byte = @ + Len(chunk)]]
           /\ Yield(s, Chunk("central", CdIdx(s) + 1, chunk))
    /\ Did(s, 1, OpensOnResume(s), ReadsOnResume(s))
    /\ UNCHANGED <<kind, files, lastAdd, readded, advertised, measured, call, scanner>>

\* Mutant of ZipEnd: the record is yielded as soon as the first loop is
\* over, whether or not the central directory headers have been.
ZipEndBeforeDirectory(s) ==
    /\ ZipInSecondLoop(s)
    /\ ~zip_end_of_central_directory_raises(
           PyInt(Len(files[s])), PyInt(CdSize(s)), PyInt(CdOffset(s)))
    /\ gen' = [gen EXCEPT ![s] =
                 [@ EXCEPT !.di_used = Len(files[s]), !.pc = "zend", !.cd_idx = CdIdx(s), !.opened = {},
                           !.central_directory_size = CdSize(s),
                           !.centra_directory_offset = CdOffset(s)]]
    /\ Yield(s, Chunk("end", 0,
                      zip_end_of_central_directory(
           PyInt(Len(files[s])), PyInt(CdSize(s)), PyInt(CdOffset(s)))))
    /\ Did(s, 0, OpensOnResume(s), ReadsOnResume(s))
    /\ UNCHANGED <<kind, files, lastAdd, readded, advertised, measured, call, scanner>>

\* The second loop is over: yield the end of central directory record.
ZipEnd(s) ==
    /\ ZipInSecondLoop(s)
    /\ CdIdx(s) >= Len(files[s])
    /\ ~zip_end_of_central_directory_raises(
           PyInt(Len(files[s])), PyInt(CdSize(s)), PyInt(CdOffset(s)))
    /\ gen' = [gen EXCEPT ![s] =
                 [@ EXCEPT !.di_used = Len(files[s]), !.pc = "zend", !.cd_idx = CdIdx(s), !.opened = {},
                           !.central_directory_size = CdSize(s),
                           !.centra_directory_offset = CdOffset(s)]]
    /\ Yield(s, Chunk("end", 0,
                      zip_end_of_central_directory(
           PyInt(Len(files[s])), PyInt(CdSize(s)), PyInt(CdOffset(s)))))
    /\ Did(s, 0, OpensOnResume(s), ReadsOnResume(s))
    /\ UNCHANGED <<kind, files, lastAdd, readded, advertised, measured, call, scanner>>

\* Resumed after the last yield: the generator returns.
ZipStop(s) ==
    /\ kind[s] = "zip" /\ gen[s].pc = "zend"
    /\ gen' = [gen EXCEPT ![s] = [@ EXCEPT !.pc = "done"]]
    /\ UNCHANGED <<kind, files, lastAdd, readded, advertised, sent, measured, fsops, call, scanner>>

\* ----------------------------------------------------------- specification

Step(s) ==
    \/ \E filename \in Names, filepath \in Paths : AddFile(s, filename, filepath)
    \/ Response(s)
    \/ ResponseRaise(s)
    \/ Generator(s)
    \/ TarHeader(s)
    \/ TarHeaderRaise(s)
    \/ TarStop(s)
    \/ TarPayload(s)
    \/ TarPadding(s)
    \/ ZipLocal(s)
    \/ ZipLocalRaise(s)
    \/ ZipPayload(s)
    \/ ZipCentral(s)
    \/ ZipEnd(s)
    \/ ZipStop(s)

Next == \E s \in Active : Step(s)

Spec == Init /\ [][Next]_vars

\* The life of one sender with its callers' other moves: content_length()
\* called by itself, the consumer closing the generator or pulling from a
\* finished one, and generator() called again.  The sender starts with its
\* files registered: every list of at most MaxEntries entries with distinct
\* archive paths, drawn from two archive paths and three files.
LifeNames == {NameA, NameB}

LifePaths == {"f10", "f512", "gone"}

LifeEntries == [name : LifeNames, file : LifePaths]

LifeFiles ==
    {<<>>} \cup {<<e>> : e \in LifeEntries}
           \cup {p \in {<<e1, e2>> : e1 \in LifeEntries, e2 \in LifeEntries} :
                    p[1].name # p[2].name /\ MaxEntries >= 2}

\* The dict add_file has built for a list of entries.
Registered(fs) ==
    [filename \in {fs[i].name : i \in 1..Len(fs)} |->
        (CHOOSE e \in {fs[i] : i \in 1..Len(fs)} : e.name = filename).file]

LifeInit ==
    /\ kind \in {k \in [Senders -> Kinds] : \A s \in Senders \ Active : k[s] = "tar"}
    /\ files \in {f \in [Senders -> LifeFiles] : \A s \in Senders \ Active : f[s] = <<>>}
    /\ lastAdd = [s \in Senders |-> Registered(files[s])]
    /\ readded = [s \in Senders |-> FALSE]
    /\ advertised = [s \in Senders |-> -1]
    /\ gen = [s \in Senders |-> NoGen]
    /\ sent = [s \in Senders |-> <<>>]
    /\ fsops = [s \in Senders |-> NoOps]
    /\ measured = [s \in Senders |-> NoMeasure]
    /\ call = NoCall
    /\ scanner = NoScan

Pull(s) ==
    \/ TarHeader(s)
    \/ TarHeaderRaise(s)
    \/ TarStop(s)
    \/ TarPayload(s)
    \/ TarPadding(s)
    \/ ZipLocal(s)
    \/ ZipLocalRaise(s)
    \/ ZipPayload(s)
    \/ ZipCentral(s)
    \/ ZipEnd(s)
    \/ ZipStop(s)

LifeStep(s) ==
    \/ ContentLength(s)
    \/ Response(s)
    \/ ResponseRaise(s)
    \/ Generator(s)
    \/ Pull(s)
    \/ Close(s)
    \/ PullFinished(s)
    \/ GeneratorAgain(s)

LifeNext == \E s \in Active : LifeStep(s)

LifeSpec == LifeInit /\ [][LifeNext]_vars

\* A consumer that keeps pulling: generator() is called on a sender with its
\* files registered, and whenever a pull can be made one eventually is (the
\* consumer never closes the sequence and never stops in the middle).
StreamStep(s) ==
    \/ Generator(s)
    \/ Pull(s)
    \/ PullFinished(s)
    \/ GeneratorAgain(s)

StreamNext == \E s \in Active : StreamStep(s)

StreamSpec ==
    LifeInit /\ [][StreamNext]_vars /\ \A s \in Active : WF_vars(Pull(s))

\* Two senders, of the same class or not, built and streamed at the same
\* time: every call on one is a step, in any order with the calls on the
\* other.  Both draw their entries from two archive paths and two files.
TwoNames == {NameA, NameB}

TwoPaths == {"f512", "gone"}

TwoInit ==
    /\ kind \in [Senders -> Kinds]
    /\ files = [s \in Senders |-> <<>>]
    /\ lastAdd = [s \in Senders |-> EmptyDict]
    /\ readded = [s \in Senders |-> FALSE]
    /\ advertised = [s \in Senders |-> -1]
    /\ gen = [s \in Senders |-> NoGen]
    /\ sent = [s \in Senders |-> <<>>]
    /\ fsops = [s \in Senders |-> NoOps]
    /\ measured = [s \in Senders |-> NoMeasure]
    /\ call = NoCall
    /\ scanner = NoScan

TwoStep(s) ==
    \/ \E filename \in TwoNames, filepath \in TwoPaths : AddFile(s, filename, filepath)
    \/ Generator(s)
    \/ Pull(s)

TwoNext == \E s \in Senders : TwoStep(s)

TwoSpec == TwoInit /\ [][TwoNext]_vars

\* ------------------------------------------------- reading a chunk sequence

Last(q) == q[Len(q)]

\* sum(len(chunk) for chunk in chunks[lo..hi])
RECURSIVE BytesIn(_, _, _)
BytesIn(chunks, lo, hi) ==
    IF lo > hi THEN 0 ELSE Len(chunks[lo].bytes) + BytesIn(chunks, lo + 1, hi)

TotalBytes(chunks) == BytesIn(chunks, 1, Len(chunks))

\* The offset in the stream of the first byte of chunk k.
OffsetOf(chunks, k) == BytesIn(chunks, 1, k - 1)

\* The little-endian field of n bytes at Python offset off of a chunk.
Field(bytes, off, n) == FromBytes(SubSeq(bytes, off + 1, off + n))

Tagged(chunks, tag) == {k \in 1..Len(chunks) : chunks[k].tag = tag}

\* The chunk with this tag yielded for entry e.
ChunkOf(chunks, tag, e) ==
    CHOOSE k \in 1..Len(chunks) : chunks[k].tag = tag /\ chunks[k].entry = e

\* The payload bytes yielded for entry e, in the order of the stream.
RECURSIVE PayloadFrom(_, _, _)
PayloadFrom(chunks, k, e) ==
    IF k > Len(chunks) THEN <<>>
    ELSE (IF chunks[k].tag = "payload" /\ chunks[k].entry = e
          THEN chunks[k].bytes ELSE <<>>) \o PayloadFrom(chunks, k + 1, e)

PayloadOf(chunks, e) == PayloadFrom(chunks, 1, e)

TarDone(s) == kind[s] = "tar" /\ gen[s].pc = "done"

ZipDone(s) == kind[s] = "zip" /\ gen[s].pc = "done"

\* ----------------------------------------- the archive of a list of entries

\* What follows derives, from a sender's class and entries alone, the chunks
\* of the archive: each header from the entry, each offset from the place
\* of the chunks in the sequence.  No running counter and no generator
\* frame is used.

\* The entry cannot be streamed: its file is missing, or its ZIP local
\* header cannot be built.
EntryFails(k, e) ==
    \/ ~Exists(e.file)
    \/ k = "zip" /\ zip_local_file_header_raises(e.name, e.file)

\* The number of entries before the first that cannot be streamed.
Streamable(k, fs) ==
    IF \E i \in 1..Len(fs) : EntryFails(k, fs[i])
    THEN (CHOOSE i \in 1..Len(fs) :
              EntryFails(k, fs[i]) /\ \A j \in 1..(i - 1) : ~EntryFails(k, fs[j])) - 1
    ELSE Len(fs)

\* The content of a file cut in chunks of at most CHUNK_SIZE bytes.
RECURSIVE PayloadChunks(_, _, _)
PayloadChunks(file, i, pos) ==
    IF pos >= FileSize(file) THEN <<>>
    ELSE <<Chunk("payload", i,
                 SubSeq(Content[file], pos + 1, Min(pos + CHUNK_SIZE, FileSize(file))))>>
         \o PayloadChunks(file, i, pos + CHUNK_SIZE)

\* The TAR records of entries i..n.
RECURSIVE TarRecords(_, _, _)
TarRecords(fs, i, n) ==
    IF i > n THEN <<>>
    ELSE <<Chunk("header", i, tar_header_chunk(fs[i].name, fs[i].file))>>
         \o PayloadChunks(fs[i].file, i, 0)
         \o <<Chunk("padding", i, Zeros(512 - (FileSize(fs[i].file) % 512)))>>
         \o TarRecords(fs, i + 1, n)

\* The ZIP local headers and payloads of entries i..n.
RECURSIVE ZipLocalRegion(_, _, _)
ZipLocalRegion(fs, i, n) ==
    IF i > n THEN <<>>
    ELSE <<Chunk("local", i,
                 zip_local_file_header(fs[i].name, fs[i].file, crc32(fs[i].file)))>>
         \o PayloadChunks(fs[i].file, i, 0)
         \o ZipLocalRegion(fs, i + 1, n)

\* The central directory headers of entries i..n, each with the offset at
\* which the entry's local header stands in the local region.
RECURSIVE ZipCentralRegion(_, _, _, _)
ZipCentralRegion(fs, local, i, n) ==
    IF i > n THEN <<>>
    ELSE <<Chunk("central", i,
                 zip_central_directory_file_header(
                     fs[i].name, fs[i].file, crc32(fs[i].file),
                     PyInt(OffsetOf(local, ChunkOf(local, "local", i)))))>>
         \o ZipCentralRegion(fs, local, i + 1, n)

\* The chunks a sender of class k with entries fs yields when it is streamed
\* alone: the whole archive, or the part that comes before the entry that
\* cannot be streamed.
SoloChunks(k, fs) ==
    LET n == Streamable(k, fs)
    IN  IF k = "tar" THEN TarRecords(fs, 1, n)
        ELSE LET local == ZipLocalRegion(fs, 1, n)
                 central == ZipCentralRegion(fs, local, 1, n)
             IN  IF n < Len(fs) THEN local
                 ELSE local \o central
                      \o <<Chunk("end", 0,
                                 zip_end_of_central_directory(
                                     PyInt(Len(fs)), PyInt(TotalBytes(central)),
                                     PyInt(TotalBytes(local))))>>

\* (the archive of each list of entries of LifeFiles is derived once)
SoloOf == [k \in Kinds |-> [fs \in LifeFiles |-> SoloChunks(k, fs)]]

IsPrefix(p, q) == Len(p) <= Len(q) /\ p = SubSeq(q, 1, Len(p))

\* ------------------------------------------------------------------ claims

\* C1: a TarSender's content_length() equals the number of bytes its
\* generator yields when it is run to exhaustion.
C1_TarLengthEqualsBytes ==
    \A s \in Active :
        TarDone(s) => tar_content_length(files[s]) = TotalBytes(sent[s])

\* C1, where it holds: the two agree whenever every header of the stream has
\* 512 bytes, and then a response() announced the length of its body.
C1_TarLengthEqualsBytesFor512ByteHeaders ==
    \A s \in Active :
        (TarDone(s) /\ \A k \in Tagged(sent[s], "header") : Len(sent[s][k].bytes) = 512)
            => /\ tar_content_length(files[s]) = TotalBytes(sent[s])
               /\ advertised[s] \in {-1, TotalBytes(sent[s])}

\* C1: the scenario of the claim, one 5-byte file streamed as TAR to the
\* end: 1024 bytes, announced and yielded.
C1_FiveByteFileStreamed ==
    /\ TarDone(1)
    /\ files[1] = <<[name |-> NameA, file |-> "f5"]>>
    /\ advertised[1] = 1024
    /\ TotalBytes(sent[1]) = 1024

\* sum over the entries of 76 + 2 x len(name) + size, plus 22
RECURSIVE ZipLengthFormula(_)
ZipLengthFormula(fs) ==
    IF fs = <<>> THEN 22
    ELSE 76 + 2 * Len(fs[1].name) + Len(Content[fs[1].file]) + ZipLengthFormula(Tail(fs))

\* C2: a ZipSender's content_length() is the sum over its entries of
\* (76 + 2 x archive-path length + file size) plus 22, and the generator run
\* to exhaustion yields that many bytes.
C2_ZipLengthEqualsBytes ==
    \A s \in Active :
        ZipDone(s) => /\ zip_content_length(files[s]) = ZipLengthFormula(files[s])
                      /\ zip_content_length(files[s]) = TotalBytes(sent[s])

\* C2, where it holds: the formula always gives content_length(), and the
\* stream has that many bytes whenever no archive path is empty.
C2_ZipLengthEqualsBytesForNonEmptyPaths ==
    \A s \in Active :
        ZipDone(s) =>
            /\ zip_content_length(files[s]) = ZipLengthFormula(files[s])
            /\ (\A i \in 1..Len(files[s]) : files[s][i].name # <<>>)
                   => /\ zip_content_length(files[s]) = TotalBytes(sent[s])
                      /\ advertised[s] \in {-1, TotalBytes(sent[s])}

\* C2: the scenario of the claim, files of 10 and 20 bytes under 5-character
\* paths streamed as ZIP to the end: 96 + 106 + 22 = 224 bytes.
C2_TenAndTwentyStreamed ==
    /\ ZipDone(1)
    /\ files[1] = <<[name |-> NameA, file |-> "f10"], [name |-> NameB, file |-> "f20"]>>
    /\ advertised[1] = 224
    /\ TotalBytes(sent[1]) = 224

\* C3: in a ZIP stream run to exhaustion, the local-header-offset field
\* (bytes 42-45) of every central directory header is the number of bytes
\* yielded before the local file header of the same entry.
C3_CentralOffsetIsLocalHeaderOffset ==
    \A s \in Active :
        ZipDone(s) =>
            \A k \in Tagged(sent[s], "central") :
                Field(sent[s][k].bytes, 42, 4)
                    = OffsetOf(sent[s], ChunkOf(sent[s], "local", sent[s][k].entry))

\* C3: a finished stream of a 0-byte file, then a file read in two chunks,
\* then a third entry behind them.
C3_Witness ==
    /\ ZipDone(1)
    /\ Len(files[1]) >= 2
    /\ files[1][1].file = "f0"
    /\ files[1][2].file = "f512"
    /\ Cardinality(Tagged(sent[1], "central")) = Len(files[1])
    /\ Field(sent[1][ChunkOf(sent[1], "central", 2)].bytes, 42, 4) > 0

\* The size of the central directory region of a stream, and where it starts.
CentralSize(chunks) ==
    LET cd == Tagged(chunks, "central")
    IN  IF cd = {} THEN 0
        ELSE BytesIn(chunks, CHOOSE k \in cd : \A j \in cd : k <= j,
                             CHOOSE k \in cd : \A j \in cd : j <= k)

CentralStart(chunks) ==
    LET cd == Tagged(chunks, "central")
    IN  IF cd = {} THEN OffsetOf(chunks, Len(chunks))
        ELSE OffsetOf(chunks, CHOOSE k \in cd : \A j \in cd : k <= j)

\* C4: in a ZIP stream run to exhaustion, the end of central directory
\* record holds the total length of the central directory headers (bytes
\* 12-15), the number of bytes yielded before the first of them (bytes
\* 16-19) and, twice, the number of registered entries (bytes 8-9, 10-11).
C4_EndRecordLocatesCentralDirectory ==
    \A s \in Active :
        ZipDone(s) =>
            LET end == Last(sent[s]).bytes
            IN  /\ Last(sent[s]).tag = "end"
                /\ Field(end, 12, 4) = CentralSize(sent[s])
                /\ Field(end, 16, 4) = CentralStart(sent[s])
                /\ Field(end, 8, 2) = Len(files[s])
                /\ Field(end, 10, 2) = Len(files[s])

\* C4: a finished stream of two entries, the central directory behind a
\* payload.
C4_Witness ==
    /\ ZipDone(1)
    /\ Len(files[1]) = 2
    /\ files[1][1].file = "f20"
    /\ Cardinality(Tagged(sent[1], "central")) = 2
    /\ Field(Last(sent[1]).bytes, 16, 4) > 0
    /\ Field(Last(sent[1]).bytes, 12, 4) > 0

\* The CRC-32 of the whole contents of each file, computed in one pass: the
\* register is inverted once, carried over all the bytes (32 at a time, to
\* keep the recursion shallow) and inverted once at the end.
RECURSIVE CrcRegisterOver(_, _, _)
CrcRegisterOver(data, i, reg) ==
    IF i > Len(data) THEN reg
    ELSE LET next == CrcFrom(SubSeq(data, i, Min(i + 31, Len(data))), 1, reg)
         IN  IF Len(next) = 4 THEN CrcRegisterOver(data, i + 32, next) ELSE next

WholeFileCrc32 ==
    [p \in Paths |->
        XorBytes(CrcRegisterOver(Content[p], 1, <<255, 255, 255, 255>>),
                 <<255, 255, 255, 255>>)]

LocalCrcField(chunks, e) == SubSeq(chunks[ChunkOf(chunks, "local", e)].bytes, 15, 18)

CentralCrcField(chunks, e) == SubSeq(chunks[ChunkOf(chunks, "central", e)].bytes, 17, 20)

\* C5: for every entry of a produced ZIP archive, the CRC-32 field of the
\* local file header (bytes 14-17) and of the central directory header
\* (bytes 16-19) both hold the CRC-32 of the bytes of the entry's source,
\* which are the payload bytes of the entry.
C5_CrcFieldsAreTheSourceCrc ==
    \A s \in Active :
        ZipDone(s) =>
            \A e \in 1..Len(files[s]) :
                /\ LocalCrcField(sent[s], e) = CentralCrcField(sent[s], e)
                /\ LocalCrcField(sent[s], e) = WholeFileCrc32[files[s][e].file]
                /\ PayloadOf(sent[s], e) = Content[files[s][e].file]

\* C5: a finished stream whose entries are a file checksummed in several
\* blocks and a smaller one, with different checksums.
C5_Witness ==
    /\ ZipDone(1)
    /\ Len(files[1]) = 2
    /\ files[1][1].file = "f512"
    /\ files[1][2].file = "f20"
    /\ Len(Content["f512"]) > CRC32_CHUNK_SIZE
    /\ gen[1].crcs[files[1][1].name] # gen[1].crcs[files[1][2].name]
RECURSIVE OctValue(_)
OctValue(digits) ==
    IF digits = <<>> THEN 0
    ELSE IF Last(digits) \notin ZERO..(ZERO + 7) THEN -1
    ELSE LET high == OctValue(SubSeq(digits, 1, Len(digits) - 1))
         IN  IF high < 0 THEN -1 ELSE 8 * high + (Last(digits) - ZERO)

\* The sum of the bytes of a header with bytes 148-155 counted as spaces.
HeaderSum(bytes) ==
    SumRange([i \in 1..Len(bytes) |-> IF i \in 149..156 THEN SPACE ELSE bytes[i]],
             1, Len(bytes))

\* C7: in every header tar_header_chunk returns, bytes 148-153 are six octal
\* digits that spell the sum of the header's bytes with bytes 148-155 counted
\* as eight spaces, byte 154 is NUL and byte 155 is a space.
C7_TarChecksumField ==
    \A s \in Active :
        (kind[s] = "tar" /\ sent[s] # <<>> /\ Last(sent[s]).tag = "header")
            => /\ OctValue(SubSeq(Last(sent[s]).bytes, 149, 154)) = HeaderSum(Last(sent[s]).bytes)
               /\ Last(sent[s]).bytes[155] = 0
               /\ Last(sent[s]).bytes[156] = SPACE

\* C7: the header of the second entry has just been yielded.
C7_Witness ==
    /\ kind[1] = "tar"
    /\ Len(files[1]) = 2
    /\ files[1][2] = [name |-> NameB, file |-> "f20"]
    /\ sent[1] # <<>>
    /\ Last(sent[1]).tag = "header"
    /\ Last(sent[1]).entry = 2
    /\ OctValue(SubSeq(Last(sent[1]).bytes, 149, 154)) > 256

\* Whether the header that opens an entry (TAR header, ZIP local file
\* header) carries this archive path.
CarriesName(k, bytes, filename) ==
    IF k = "tar"
    THEN /\ SubSeq(bytes, 1, Len(filename)) = filename
         /\ bytes[Len(filename) + 1] = 0
    ELSE /\ Field(bytes, 26, 2) = Len(filename)
         /\ SubSeq(bytes, 31, Len(bytes)) = filename

Heads(s) == Tagged(sent[s], IF kind[s] = "tar" THEN "header" ELSE "local")

\* C8: after any add_file calls the sender holds one entry per archive path
\* registered, with the source of the latest add_file for that path; an
\* archive streamed to the end has, for each such path, one entry that
\* carries the path, and its payload is the bytes of that latest source.
C8_OneEntryPerPathLatestSource ==
    \A s \in Active :
        /\ \A i, j \in 1..Len(files[s]) : files[s][i].name = files[s][j].name => i = j
        /\ {files[s][i].name : i \in 1..Len(files[s])} = DOMAIN lastAdd[s]
        /\ \A i \in 1..Len(files[s]) : files[s][i].file = lastAdd[s][files[s][i].name]
        /\ gen[s].pc = "done" =>
               /\ Cardinality(Heads(s)) = Cardinality(DOMAIN lastAdd[s])
               /\ \A n \in DOMAIN lastAdd[s] :
                      \E k \in Heads(s) :
                          /\ CarriesName(kind[s], sent[s][k].bytes, n)
                          /\ PayloadOf(sent[s], sent[s][k].entry) = Content[lastAdd[s][n]]
                          /\ \A j \in Heads(s) :
                                 CarriesName(kind[s], sent[s][j].bytes, n) => j = k

\* C8: an archive streamed to the end after add_file gave a registered path
\* another source, of other contents.
C8_Witness ==
    /\ gen[1].pc = "done"
    /\ readded[1]
    /\ Len(files[1]) = 2
    /\ files[1][1].file = "f20"
    /\ PayloadOf(sent[1], 1) = Content["f20"]

\* C9: a TAR stream is, for each entry in the order of registration, the
\* header of the entry, its payload chunks and its padding, and nothing
\* else: a finished stream ends with the padding of the last entry, and is
\* empty for a sender without entries.
C9_TarStreamOrder ==
    \A s \in Active :
        kind[s] = "tar" =>
            /\ \A k \in 1..Len(sent[s]) :
                   LET c == sent[s][k]
                   IN  /\ c.tag \in {"header", "payload", "padding"}
                       /\ c.entry \in 1..Len(files[s])
                       /\ c.tag = "header" =>
                              /\ Len(c.bytes) >= 512
                              /\ CarriesName("tar", c.bytes, files[s][c.entry].name)
                       /\ c.tag = "payload" =>
                              /\ c.bytes # <<>>
                              /\ Len(c.bytes) <= CHUNK_SIZE
                       /\ IF k = 1
                          THEN c.tag = "header" /\ c.entry = 1
                          ELSE LET b == sent[s][k - 1]
                               IN  IF b.tag = "padding"
                                   THEN c.tag = "header" /\ c.entry = b.entry + 1
                                   ELSE c.tag \in {"payload", "padding"} /\ c.entry = b.entry
            /\ \A e \in 1..Len(files[s]) :
                   (\E k \in 1..Len(sent[s]) : sent[s][k].tag = "padding" /\ sent[s][k].entry = e)
                       => PayloadOf(sent[s], e) = Content[files[s][e].file]
            /\ gen[s].pc = "done" =>
                   IF files[s] = <<>> THEN sent[s] = <<>>
                   ELSE /\ Last(sent[s]).tag = "padding"
                        /\ Last(sent[s]).entry = Len(files[s])

\* C9: a finished TAR stream of two entries, the second sent in two payload
\* chunks.
C9_Witness ==
    /\ TarDone(1)
    /\ Len(files[1]) = 2
    /\ files[1][2].file = "f512"
    /\ Cardinality({k \in Tagged(sent[1], "payload") : sent[1][k].entry = 2}) = 2
    /\ Last(sent[1]).tag = "padding"

\* C9: a sender without entries streamed to the end.
C9_EmptyWitness == TarDone(1) /\ files[1] = <<>> /\ sent[1] = <<>>

\* C10: a ZIP stream is, for each entry in the order of registration, its
\* local file header and its payload chunks, then one central directory
\* header per entry in the same order, then one end of central directory
\* record, the last chunk; no central directory header comes before the
\* last payload chunk.
C10_ZipStreamOrder ==
    \A s \in Active :
        kind[s] = "zip" =>
            /\ \A k \in 1..Len(sent[s]) :
                   LET c == sent[s][k]
                   IN  /\ c.tag \in {"local", "payload", "central", "end"}
                       /\ c.tag # "end" => c.entry \in 1..Len(files[s])
                       /\ c.tag = "local" =>
                              /\ SubSeq(c.bytes, 1, 4) = <<80, 75, 3, 4>>
                              /\ CarriesName("zip", c.bytes, files[s][c.entry].name)
                       /\ c.tag = "central" =>
                              /\ SubSeq(c.bytes, 1, 4) = <<80, 75, 1, 2>>
                              /\ SubSeq(c.bytes, 47, Len(c.bytes)) = files[s][c.entry].name
                       /\ c.tag = "end" => SubSeq(c.bytes, 1, 4) = <<80, 75, 5, 6>>
                       /\ c.tag = "payload" => c.bytes # <<>>
                       /\ IF k = 1
                          THEN IF files[s] = <<>> THEN c.tag = "end"
                               ELSE c.tag = "local" /\ c.entry = 1
                          ELSE LET b == sent[s][k - 1]
                               IN  CASE b.tag \in {"local", "payload"} ->
                                          \/ c.tag = "payload" /\ c.entry = b.entry
                                          \/ c.tag = "local" /\ c.entry = b.entry + 1
                                          \/ /\ c.tag = "central" /\ c.entry = 1
                                             /\ b.entry = Len(files[s])
                                             /\ PayloadOf(sent[s], b.entry)
                                                    = Content[files[s][b.entry].file]
                                     [] b.tag = "central" ->
                                          \/ c.tag = "central" /\ c.entry = b.entry + 1
                                          \/ c.tag = "end" /\ b.entry = Len(files[s])
                                     [] OTHER -> FALSE
            /\ gen[s].pc = "done" =>
                   /\ Last(sent[s]).tag = "end"
                   /\ Cardinality(Tagged(sent[s], "end")) = 1
                   /\ Cardinality(Tagged(sent[s], "local")) = Len(files[s])
                   /\ Cardinality(Tagged(sent[s], "central")) = Len(files[s])

\* C10: a finished ZIP stream of two entries, the first sent in two payload
\* chunks.
C10_Witness ==
    /\ ZipDone(1)
    /\ Len(files[1]) = 2
    /\ files[1][1].file = "f512"
    /\ files[1][2].file = "f10"
    /\ Len(sent[1]) = 8
    /\ sent[1][6].tag = "central"
    /\ sent[1][7].tag = "central"

\* Some registered source file of the sender is missing.
SomeMissing(s) == \E i \in 1..Len(files[s]) : ~Exists(files[s][i].file)

\* C11: add_file makes no filesystem call and does not fail, whether or not
\* the source file exists: a step that changes the registration leaves the
\* filesystem calls and the generator as they were, and no error exists
\* before content_length() or the generator has reached the missing file.
\* The missing file then does raise: in content_length() before any chunk,
\* or in the generator at the entry, and no stream with a missing file is
\* ever exhausted.
C11_AddFileDefersMissingSource ==
    /\ [][\A s \in Active :
            (files'[s] # files[s] \/ lastAdd'[s] # lastAdd[s])
                => fsops'[s] = fsops[s] /\ gen'[s] = gen[s]]_vars
    /\ [](\A s \in Active :
            /\ gen[s].pc = "new" => gen[s].raised = "" /\ fsops[s] = NoOps
            /\ gen[s].raised \in {"", "content_length", "tar_header_chunk", "crc32",
                                  "zip_local_file_header"}
            /\ gen[s].raised \in {"content_length", "tar_header_chunk", "crc32"}
                  => SomeMissing(s) /\ fsops[s] # NoOps
            /\ gen[s].pc = "done" => ~SomeMissing(s))

\* C11: a missing source file is registered, nothing has been looked up and
\* nothing has failed.
C11_Witness ==
    /\ Len(files[1]) = 2
    /\ files[1][2].file = "gone"
    /\ gen[1].pc = "new"
    /\ gen[1].raised = ""
    /\ fsops[1] = NoOps

\* C11: the missing file has raised in the generator, at its entry.
C11_RaisedLaterWitness ==
    /\ Len(files[1]) = 2
    /\ files[1][2].file = "gone"
    /\ gen[1].pc = "error"
    /\ gen[1].raised \in {"tar_header_chunk", "crc32"}
    /\ sent[1] # <<>>

\* C12: when the consumer closes the chunk sequence at a suspension point,
\* the file of the entry in progress is closed, the closing itself makes no
\* filesystem call, and from then on the generator makes none (no os.stat,
\* no open, no read) and yields nothing.
C12_CloseReleasesAndStops ==
    /\ [](\A s \in Active : gen[s].pc = "closed" => gen[s].opened = {})
    /\ [][\A s \in Active :
            (gen'[s].pc = "closed" \/ gen[s].pc = "closed")
                => fsops'[s] = fsops[s] /\ sent'[s] = sent[s]]_vars
    /\ [][\A s \in Active : gen[s].pc = "closed" => gen'[s].pc = "closed"]_vars

\* C12: a ZIP sequence was closed in the middle of a payload, with the file
\* open, and the consumer has pulled again since.
C12_Witness ==
    /\ kind[1] = "zip"
    /\ gen[1].pc = "closed"
    /\ gen[1].stopped
    /\ sent[1] # <<>>
    /\ Last(sent[1]).tag = "payload"
    /\ gen[1].fpos < FileSize(gen[1].file)

\* C12: the same for a TAR sequence.
C12_TarWitness ==
    /\ kind[1] = "tar"
    /\ gen[1].pc = "closed"
    /\ gen[1].stopped
    /\ sent[1] # <<>>
    /\ Last(sent[1]).tag = "payload"
    /\ gen[1].fpos < FileSize(gen[1].file)

\* The generator raised while it was running (not content_length()).
Aborted(s) == gen[s].pc = "error" /\ gen[s].raised # "content_length"

C14_ContentLengthHeaderIsBodyLength ==
    \A s \in Active :
        advertised[s] >= 0 =>
            /\ advertised[s] = content_length(kind[s], files[s])
            /\ gen[s].pc = "done" => TotalBytes(sent[s]) = advertised[s]

\* C14: the part that holds: the header is there when content_length()
\* returned, with that value, and the body has that many bytes whenever
\* every header of the archive has the length content_length() counts for it.
C14_HeaderIsContentLength ==
    \A s \in Active :
        /\ advertised[s] >= 0 =>
               /\ gen[s].pc # "new" /\ gen[s].raised # "content_length"
               /\ advertised[s] = content_length(kind[s], files[s])
        /\ gen[s].raised = "content_length" => advertised[s] = -1
        /\ (/\ advertised[s] >= 0 /\ gen[s].pc = "done"
            /\ (\A k \in Tagged(sent[s], "header") : Len(sent[s][k].bytes) = 512)
            /\ (\A j \in Tagged(sent[s], "local") :
                   Len(sent[s][j].bytes) = 30 + Len(files[s][sent[s][j].entry].name)))
              => TotalBytes(sent[s]) = advertised[s]

\* C14: response() was called on a sender and its body streamed to the end.
C14_BodyStreamed ==
    /\ advertised[1] >= 0
    /\ gen[1].pc = "done"
    /\ Len(files[1]) = 2

\* What a sender owns: its entries, its generator and the chunks yielded.
Own(s) == <<files[s], lastAdd[s], gen[s], sent[s], fsops[s]>>

\* C15: with two senders used at the same time, a call on one (add_file,
\* generator() or a pull) leaves the entries, the generator (its offsets and
\* CRCs among it) and the chunks of the other as they were, and under every
\* interleaving each sender yields the chunks it yields when it is streamed
\* alone: at every moment a prefix of that sequence, and the whole of it
\* once exhausted.
C15_SendersAreIndependent ==
    /\ [][\A s \in Senders : \A t \in Senders \ {s} :
            Own(s)' # Own(s) => Own(t)' = Own(t)]_vars
    /\ [](\A s \in Senders :
            /\ IsPrefix(sent[s], SoloOf[kind[s]][files[s]])
            /\ gen[s].pc = "done" => sent[s] = SoloOf[kind[s]][files[s]])

\* C15: a ZipSender and a TarSender with different entries are both in the
\* middle of a payload.
C15_Witness ==
    /\ kind[1] = "zip" /\ kind[2] = "tar"
    /\ Len(files[1]) = 2 /\ Len(files[2]) = 1
    /\ gen[1].pc = "zdata" /\ gen[1].idx = 2
    /\ gen[2].pc = "data"
    /\ gen[1].fpos < 512 /\ gen[2].fpos < 512

\* C15: two ZipSender with the same entries in opposite orders are both
\* exhausted.
C15_BothDoneWitness ==
    /\ kind[1] = "zip" /\ kind[2] = "zip"
    /\ Len(files[1]) = 2 /\ Len(files[2]) = 2
    /\ files[1][1].name = files[2][2].name
    /\ gen[1].pc = "done" /\ gen[2].pc = "done"

\* C16: the sequence of chunks is finite.  A consumer that keeps pulling
\* from a started generator reaches its end: exhaustion when every entry
\* can be read, the error otherwise.  The chunks yielded are never more
\* than the archive has, an exhausted generator yields nothing more, and
\* the only step out of exhaustion is a new generator() call, whose
\* sequence starts empty and is again the archive from its first chunk.
C16_StreamIsFinite ==
    /\ \A s \in Active :
          (gen[s].pc = "start" /\ Streamable(kind[s], files[s]) = Len(files[s]))
              ~> (gen[s].pc = "done")
    /\ \A s \in Active : (gen[s].pc = "start") ~> (gen[s].pc \in {"done", "error"})
    /\ [](\A s \in Active :
            /\ IsPrefix(sent[s], SoloOf[kind[s]][files[s]])
            /\ gen[s].pc = "done" => sent[s] = SoloOf[kind[s]][files[s]])
    /\ [][\A s \in Active :
            gen[s].pc = "done" =>
                \/ gen'[s].pc = "done" /\ sent'[s] = sent[s] /\ fsops'[s] = fsops[s]
                \/ /\ gen'[s] = [NoGen EXCEPT !.pc = "start",
                                              !.earlier = gen[s].earlier + 1]
                   /\ sent'[s] = <<>>]_vars

\* C16: a second generator of a sender with two entries is exhausted, and
\* the consumer has pulled once more.
C16_Witness ==
    /\ Len(files[1]) = 2
    /\ gen[1].earlier = 1
    /\ gen[1].pc = "done"
    /\ gen[1].stopped
    /\ Len(sent[1]) >= 6

\* The os.stat calls content_length() makes on these entries: one per
\* entry, up to and with the first whose file is missing.
StatCalls(fs) == IF content_length_raises(fs) THEN FirstMissing(fs) ELSE Len(fs)

\* C17: a call of content_length(), by itself or from response(), makes
\* os.stat calls only (it opens nothing and reads nothing), leaves the
\* entries, the generator and the chunks as they were, and returns what the
\* call before it returned.
C17_ContentLengthOnlyStats ==
    /\ [][\A s \in Active :
            measured'[s].calls = measured[s].calls + 1
                => /\ fsops'[s] = [fsops[s] EXCEPT !.stat = @ + StatCalls(files[s])]
                   /\ files'[s] = files[s] /\ lastAdd'[s] = lastAdd[s]
                   /\ gen'[s] = gen[s] /\ sent'[s] = sent[s]
                   /\ measured[s].calls >= 1 => measured'[s].value = measured[s].value]_vars
    /\ [][\A s \in Active :
            (gen[s].pc = "new" /\ advertised'[s] # advertised[s])
                => /\ fsops'[s] = [fsops[s] EXCEPT !.stat = @ + Len(files[s])]
                   /\ files'[s] = files[s]
                   /\ measured[s].calls >= 1 => advertised'[s] = measured[s].value]_vars
    /\ [](\A s \in Active :
            measured[s].calls >= 1 =>
                measured[s].value = IF content_length_raises(files[s]) THEN -2
                                    ELSE content_length(kind[s], files[s]))

\* C17: content_length() was called twice on a sender with two entries and
\* then once more by response().
C17_Witness ==
    /\ Len(files[1]) = 2
    /\ measured[1].calls = 2
    /\ measured[1].value > 0
    /\ advertised[1] = measured[1].value
    /\ fsops[1] = [stat |-> 6, open |-> 0, read |-> 0]

\* The `width` bytes at Python offset `off` are octal digits and the byte
\* after them is NUL.
OctalField(bytes, off, width) ==
    /\ Len(bytes) > off + width
    /\ \A i \in (off + 1)..(off + width) : bytes[i] \in ZERO..(ZERO + 7)
    /\ bytes[off + width + 1] = 0

\* The five numeric fields of a tar header are in their places.
TarFieldsInPlace(bytes) ==
    /\ OctalField(bytes, 100, 7)
    /\ OctalField(bytes, 108, 7)
    /\ OctalField(bytes, 116, 7)
    /\ OctalField(bytes, 124, 11)
    /\ OctalField(bytes, 136, 11)

\* C18: every header tar_header_chunk returns is 512 bytes long, with each
\* numeric field (mode, owner, group, size, modification time) as 7 or 11
\* octal digits at its place, followed by a NUL byte.
C18_TarHeaderIs512Bytes ==
    \A s \in Active : \A k \in Tagged(sent[s], "header") :
        /\ Len(sent[s][k].bytes) = 512
        /\ TarFieldsInPlace(sent[s][k].bytes)

\* C18: what holds: the header is 512 bytes with its fields in place
\* whenever the owner id has at most seven octal digits, as the mode, the
\* group id, the size and the time of these files have.
C18_TarHeaderIs512BytesForSmallOwners ==
    \A s \in Active : \A k \in Tagged(sent[s], "header") :
        Stat(files[s][sent[s][k].entry].file).st_uid < 2097152
            => /\ Len(sent[s][k].bytes) = 512
               /\ TarFieldsInPlace(sent[s][k].bytes)

\* The chunk is `fixed` bytes followed by the archive path and nothing else.
EndsWithPath(bytes, fixed, filename) ==
    /\ Len(bytes) = fixed + Len(filename)
    /\ SubSeq(bytes, fixed + 1, fixed + Len(filename)) = filename

\* C19: every local file header is 30 + n bytes with the archive path of n
\* bytes at its end, and every central directory header 46 + n bytes with
\* the archive path at its end, for n >= 0.
C19_ZipHeaderLengths ==
    \A s \in Active : \A k \in 1..Len(sent[s]) :
        /\ sent[s][k].tag = "local"
              => EndsWithPath(sent[s][k].bytes, 30, files[s][sent[s][k].entry].name)
        /\ sent[s][k].tag = "central"
              => EndsWithPath(sent[s][k].bytes, 46, files[s][sent[s][k].entry].name)

\* C19: what holds: the central directory header for every archive path,
\* the local file header for the archive paths that are not empty.
C19_ZipHeaderLengthsForNonEmptyPaths ==
    \A s \in Active : \A k \in 1..Len(sent[s]) :
        /\ (sent[s][k].tag = "local" /\ files[s][sent[s][k].entry].name # <<>>)
              => EndsWithPath(sent[s][k].bytes, 30, files[s][sent[s][k].entry].name)
        /\ (sent[s][k].tag = "local" /\ files[s][sent[s][k].entry].name = <<>>)
              => Len(sent[s][k].bytes) = 29
        /\ sent[s][k].tag = "central"
              => EndsWithPath(sent[s][k].bytes, 46, files[s][sent[s][k].entry].name)

\* C20: every central directory header yielded carries the modification
\* time, the modification date, the compressed size and the uncompressed
\* size of the local file header of its entry, and both sizes are the
\* number of payload bytes yielded for the entry.
C20_CentralAgreesWithLocal ==
    \A s \in Active : \A k \in Tagged(sent[s], "central") :
        LET e == sent[s][k].entry
            central == sent[s][k].bytes
            local == sent[s][ChunkOf(sent[s], "local", e)].bytes
        IN  /\ \E j \in 1..(k - 1) : sent[s][j].tag = "local" /\ sent[s][j].entry = e
            /\ SubSeq(central, 13, 14) = SubSeq(local, 11, 12)
            /\ SubSeq(central, 15, 16) = SubSeq(local, 13, 14)
            /\ Field(central, 20, 4) = Field(local, 18, 4)
            /\ Field(central, 24, 4) = Field(local, 22, 4)
            /\ Field(central, 20, 4) = Len(PayloadOf(sent[s], e))
            /\ Field(central, 24, 4) = Len(PayloadOf(sent[s], e))

\* C20: the central directory header of a second entry of 512 bytes, last
\* modified at another time than the first, has been yielded.
C20_Witness ==
    /\ kind[1] = "zip"
    /\ Len(files[1]) = 2
    /\ files[1][1].file = "f20"
    /\ files[1][2].file = "f512"
    /\ sent[1] # <<>>
    /\ Last(sent[1]).tag = "central"
    /\ Last(sent[1]).entry = 2
    /\ Field(Last(sent[1]).bytes, 20, 4) = 512

\* The f.read calls of the payload pass over a whole file: one per chunk,
\* and the empty one that ends the loop.
PayloadReads(path) == (FileSize(path) + CHUNK_SIZE - 1) \div CHUNK_SIZE + 1

\* The open and read calls of one CRC pass and one payload pass over each
\* of the entries 1..n.
RECURSIVE PassesOver(_, _)
PassesOver(fs, n) ==
    IF n = 0 THEN [open |-> 0, read |-> 0]
    ELSE [open |-> PassesOver(fs, n - 1).open + 2,
          read |-> PassesOver(fs, n - 1).read + CrcReads(fs[n].file)
                       + PayloadReads(fs[n].file)]

\* C21: in a run of the ZIP generator every entry gets one CRC pass, made
\* before its local header is yielded, and one payload pass, made after:
\* when the local header of entry i has just been yielded the files have
\* been opened 2(i-1)+1 times, from its first payload chunk on 2i times,
\* and the reads are those of that many passes; once the first loop is
\* over the count is two opens per entry and stays so through the central
\* directory.  The CRC kept for the entry is the one in both its headers.
C21_OneCrcPassOnePayloadPass ==
    \A s \in Active :
        (kind[s] = "zip" /\ gen[s].pc \in {"zhdr", "zdata", "zcd", "zend", "done"}) =>
            LET i == gen[s].idx
                before == PassesOver(files[s], i - 1)
                whole == PassesOver(files[s], Len(files[s]))
                yielded == Cardinality({k \in Tagged(sent[s], "payload") :
                                           sent[s][k].entry = i})
            IN  /\ gen[s].pc = "zhdr" =>
                       /\ fsops[s].open = before.open + 1
                       /\ fsops[s].read = before.read + CrcReads(files[s][i].file)
                /\ gen[s].pc = "zdata" =>
                       /\ fsops[s].open = before.open + 2
                       /\ fsops[s].read = before.read + CrcReads(files[s][i].file) + yielded
                /\ gen[s].pc \in {"zcd", "zend", "done"} =>
                       /\ fsops[s].open = whole.open
                       /\ fsops[s].read = whole.read
                /\ \A k \in 1..Len(sent[s]) :
                       /\ sent[s][k].tag = "local" =>
                              SubSeq(sent[s][k].bytes, 15, 18)
                                  = gen[s].crcs[files[s][sent[s][k].entry].name]
                       /\ sent[s][k].tag = "central" =>
                              SubSeq(sent[s][k].bytes, 17, 20)
                                  = gen[s].crcs[files[s][sent[s][k].entry].name]
                /\ DOMAIN gen[s].crcs = {files[s][j].name : j \in 1..i}

\* C21: a ZIP stream of a 512-byte file and an empty file is exhausted:
\* four opens, and the reads of two CRC passes and two payload passes.
C21_Witness ==
    /\ ZipDone(1)
    /\ Len(files[1]) = 2
    /\ files[1][1].file = "f512"
    /\ files[1][2].file = "f0"
    /\ fsops[1].open = 4
    /\ fsops[1].read = CrcReads("f512") + PayloadReads("f512") + 2

NamesOf(fs) == [i \in 1..Len(fs) |-> fs[i].name]

\* The chunks of one kind, taken in the order they were yielded, carry the
\* archive paths of the registered entries in registration order.
VisitsInOrder(s, tag) ==
    LET ks == Tagged(sent[s], tag)
    IN  \A k \in ks :
            LET pos == Cardinality({j \in ks : j <= k})
                bytes == sent[s][k].bytes
            IN  /\ pos <= Len(files[s])
                /\ sent[s][k].entry = pos
                /\ IF tag = "central"
                   THEN SubSeq(bytes, 47, Len(bytes)) = files[s][pos].name
                   ELSE CarriesName(kind[s], bytes, files[s][pos].name)

SingleRecord(s, c) ==
    \/ /\ c.tag \in {"header", "local", "central"}
       /\ c.entry \in 1..Len(files[s])
       /\ LET e == files[s][c.entry]
          IN  \/ c.tag = "header" /\ c.bytes = tar_header_chunk(e.name, e.file)
              \/ c.tag = "local"
                    /\ c.bytes = zip_local_file_header(e.name, e.file, crc32(e.file))
              \/ c.tag = "central"
                    /\ \E offset \in 0..TotalBytes(sent[s]) :
                           c.bytes = zip_central_directory_file_header(
                                         e.name, e.file, crc32(e.file), PyInt(offset))
    \/ c.tag = "end" /\ Len(c.bytes) = 22

\* C23: every payload chunk yielded has between 1 and CHUNK_SIZE bytes,
\* every padding chunk between 1 and 512 zero bytes, every other chunk is
\* the one header of one entry or the 22-byte end record, and the reads of
\* a CRC pass each return at most CRC32_CHUNK_SIZE bytes: no chunk depends
\* on the number of entries or on the size of the archive.
C23_ChunksAreBounded ==
    \A s \in Active :
        /\ \A k \in 1..Len(sent[s]) :
               LET c == sent[s][k]
               IN  /\ c.tag = "payload" => Len(c.bytes) \in 1..CHUNK_SIZE
                   /\ c.tag = "padding" =>
                          /\ Len(c.bytes) \in 1..512
                          /\ c.bytes = Zeros(Len(c.bytes))
                   /\ c.tag \notin {"payload", "padding"} => SingleRecord(s, c)
        /\ gen[s].pc = "zhdr" =>
               \A j \in 0..(CrcReads(gen[s].file) - 1) :
                   Len(Read(gen[s].file, j * CRC32_CHUNK_SIZE, CRC32_CHUNK_SIZE))
                       \in (IF j = CrcReads(gen[s].file) - 1 THEN {0}
                            ELSE 1..CRC32_CHUNK_SIZE)

\* C23: a 512-byte file went out as a TAR entry in more than one payload
\* chunk, the first of CHUNK_SIZE bytes, followed by a padding of 512 bytes.
C23_Witness ==
    /\ TarDone(1)
    /\ Len(files[1]) = 1
    /\ files[1][1].file = "f512"
    /\ Cardinality(Tagged(sent[1], "payload")) >= 2
    /\ Len(sent[1][2].bytes) = CHUNK_SIZE
    /\ Len(Last(sent[1]).bytes) = 512
    /\ Last(sent[1]).tag = "padding"

\* The time and date words of the specification for a modification time:
\* seconds/2, minute and hour in bits 0-4, 5-10 and 11-15; day, month and
\* year - 1980 in bits 0-4, 5-8 and 9-15.
PackedTime(st_mtime) ==
    LET mtime == FromTimestamp(st_mtime)
    IN  mtime.second \div 2 + 32 * mtime.minute + 2048 * mtime.hour

PackedDate(st_mtime) ==
    LET mtime == FromTimestamp(st_mtime)
    IN  mtime.day + 32 * mtime.month + 512 * (mtime.year - 1980)

\* The ZIP headers yielded carry the two words, little-endian, at offsets
\* 10 and 12 of the local header and 12 and 14 of the central one.
DosWordsInPlace(s) ==
    \A k \in 1..Len(sent[s]) :
        LET c == sent[s][k]
            st_mtime == Stat(files[s][c.entry].file).st_mtime
        IN  /\ c.tag = "local" =>
                   /\ Field(c.bytes, 10, 2) = PackedTime(st_mtime)
                   /\ Field(c.bytes, 12, 2) = PackedDate(st_mtime)
            /\ c.tag = "central" =>
                   /\ Field(c.bytes, 12, 2) = PackedTime(st_mtime)
                   /\ Field(c.bytes, 14, 2) = PackedDate(st_mtime)

\* C24: whatever the modification time of the source file, the ZIP headers
\* carry its time and date words, little-endian, and generating the header
\* of an existing file does not fail.
C24_DosWordsForEveryMtime ==
    \A s \in Active :
        kind[s] = "zip" =>
            /\ DosWordsInPlace(s)
            /\ gen[s].raised # "zip_local_file_header"

\* C24, what holds: the headers that are yielded carry the two words, and
\* the header of an existing file fails exactly when the year of its
\* modification time is outside 1980..2107.
C24_DosWordsWhenTheYearFits ==
    \A s \in Active :
        kind[s] = "zip" =>
            /\ DosWordsInPlace(s)
            /\ \A p \in Paths :
                   Exists(p) =>
                       (zip_local_file_header_raises(NameA, p)
                            <=> FromTimestamp(Stat(p).st_mtime).year \notin 1980..2107)
            /\ gen[s].raised = "zip_local_file_header" =>
                   FromTimestamp(Stat(gen[s].file).st_mtime).year < 1980

\* C24: the local header of a file last modified in 1970 raised.
C24_HeaderRaised ==
    /\ kind[1] = "zip"
    /\ gen[1].raised = "zip_local_file_header"
    /\ gen[1].file = "f5"
    /\ Stat("f5").st_mtime = 0

C25_AbortedWitness ==
    /\ kind[1] = "zip"
    /\ Aborted(1)
    /\ gen[1].idx = 2
    /\ Tagged(sent[1], "payload") # {}
    /\ gen[1].opened = {}

\* The bytes of the complete record of an entry: for TAR the header, the
\* content and the padding, for ZIP the local header and the content.
RecordBytes(k, e) ==
    IF k = "tar"
    THEN Len(tar_header_chunk(e.name, e.file)) + FileSize(e.file)
             + (512 - (FileSize(e.file) % 512))
    ELSE Len(zip_local_file_header(e.name, e.file, crc32(e.file))) + FileSize(e.file)

RECURSIVE RecordsBytes(_, _, _)
RecordsBytes(k, fs, n) ==
    IF n = 0 THEN 0 ELSE RecordsBytes(k, fs, n - 1) + RecordBytes(k, fs[n])

\* The chunks sent for entry j are its one header, its whole content and,
\* for TAR, its one padding.
CompleteRecord(s, j) ==
    LET of(tag) == {k \in Tagged(sent[s], tag) : sent[s][k].entry = j}
    IN  /\ Cardinality(of(IF kind[s] = "tar" THEN "header" ELSE "local")) = 1
        /\ PayloadOf(sent[s], j) = Content[files[s][j].file]
        /\ Cardinality(of("padding")) = (IF kind[s] = "tar" THEN 1 ELSE 0)

\* C26: when the generator has raised at entry k because its source file
\* does not exist, no chunk of entry k or of a later entry was yielded, and
\* what was yielded is the complete record of each entry before k and
\* nothing else, byte for byte.
C26_NoByteOfTheMissingEntry ==
    \A s \in Active :
        (Aborted(s) /\ ~Exists(gen[s].file)) =>
            LET k == gen[s].idx
            IN  /\ k \in 1..Len(files[s])
                /\ gen[s].file = files[s][k].file
                /\ \A c \in 1..Len(sent[s]) :
                       /\ sent[s][c].entry \in 1..(k - 1)
                       /\ sent[s][c].tag \in (IF kind[s] = "tar"
                                              THEN {"header", "payload", "padding"}
                                              ELSE {"local", "payload"})
                /\ \A j \in 1..(k - 1) : CompleteRecord(s, j)
                /\ TotalBytes(sent[s]) = RecordsBytes(kind[s], files[s], k - 1)

\* C26: a ZIP generator raised at its second entry, whose file is missing,
\* after the local header and the 512 bytes of the first.
C26_Witness ==
    /\ kind[1] = "zip"
    /\ Aborted(1)
    /\ gen[1].idx = 2
    /\ gen[1].file = "gone"
    /\ files[1][1].file = "f512"
    /\ TotalBytes(sent[1]) = 30 + Len(files[1][1].name) + 512

HasEnd(s) == Tagged(sent[s], "end") # {}

\* The end record is the last chunk and the only one of its kind, every
\* entry has its local header, its whole content and its central directory
\* header before it, and the central directory comes after all the rest.
EndClosesCompleteArchive(s) ==
    /\ Tagged(sent[s], "end") = {Len(sent[s])}
    /\ \A j \in 1..Len(files[s]) :
           /\ CompleteRecord(s, j)
           /\ Cardinality({k \in Tagged(sent[s], "central") : sent[s][k].entry = j}) = 1
    /\ \A k \in Tagged(sent[s], "central") :
           \A i \in Tagged(sent[s], "local") \cup Tagged(sent[s], "payload") : i < k

C27_CompleteWitness ==
    /\ ZipDone(1)
    /\ Len(files[1]) = 2
    /\ HasEnd(1)
    /\ Last(sent[1]).tag = "end"

\* ------------------------------------------- registration while streaming

GrowNames == Names

GrowPaths == {"f10", "gone"}

\* add_file(filename, filepath) called while the generator is suspended,
\* for an archive path that is not registered yet: the dict gets a new key.
AddFileWhileStreaming(s, filename, filepath) ==
    /\ Suspended(s)
    /\ ~HasName(files[s], filename)
    /\ Len(files[s]) <= MaxEntries
    /\ files' = [files EXCEPT ![s] = add_file(@, filename, filepath)]
    /\ lastAdd' = [lastAdd EXCEPT ![s] = DictSet(@, filename, filepath)]
    /\ UNCHANGED <<kind, readded, advertised, gen, sent, fsops, measured, call, scanner>>

\* The generator is about to ask its dict iterator for the next item: after
\* the TAR padding, after the empty read that ends a ZIP payload, or after
\* a central directory header.
AtDictIterNext(s) ==
    \/ kind[s] = "tar" /\ gen[s].pc = "pad"
    \/ kind[s] = "zip" /\ InReadLoop(s) /\ NextRead(s) = <<>>
    \/ kind[s] = "zip" /\ gen[s].pc = "zcd"

\* Resumed there with a dict of another size: the iterator raises
\* RuntimeError (dictionary changed size during iteration), the with block
\* has been left, nothing is yielded.
ChangedSizeRaise(s) ==
    /\ AtDictIterNext(s)
    /\ ~DictIterNext(s)
    /\ gen' = [gen EXCEPT ![s] =
                 [@ EXCEPT !.pc = "error", !.raised = "RuntimeError", !.opened = {}]]
    /\ Did(s, 0, OpensOnResume(s), ReadsOnResume(s))
    /\ UNCHANGED <<kind, files, lastAdd, readded, advertised, sent, measured, call, scanner>>

GrowStep(s) ==
    \/ \E filename \in GrowNames, filepath \in GrowPaths :
           AddFileWhileStreaming(s, filename, filepath)
    \/ Generator(s)
    \/ Pull(s)
    \/ ChangedSizeRaise(s)
    \/ PullFinished(s)

GrowNext == \E s \in Active : GrowStep(s)

GrowSpec == LifeInit /\ [][GrowNext]_vars

\* The dict has got a new key since the loop in progress created its
\* iterator.
Grown(s) == gen[s].pc \notin {"new", "start"} /\ gen[s].di_used # Len(files[s])

\* C28: once add_file has registered a new archive path while the
\* generator was partially consumed, a pull either goes on with the entry
\* in progress (a payload chunk of it, or its TAR padding), or ends a
\* sequence whose end record was already out, or, when it has to move to
\* another entry, raises RuntimeError and yields nothing: no header and no
\* central directory header is yielded any more and no end record, so
\* every header in the stream belongs to an entry registered before the
\* first pull.
C28_NewPathAbortsTheStream ==
    /\ [][\A s \in Active :
              (Grown(s) /\ gen'[s] # gen[s]) =>
                  /\ gen'[s].idx = gen[s].idx
                  /\ gen'[s].cd_idx = gen[s].cd_idx
                  /\ \/ sent'[s] = sent[s]
                     \/ /\ Len(sent'[s]) = Len(sent[s]) + 1
                        /\ SubSeq(sent'[s], 1, Len(sent[s])) = sent[s]
                        /\ Last(sent'[s]).tag \in {"payload", "padding"}
                        /\ Last(sent'[s]).entry = gen[s].idx
                  /\ AtDictIterNext(s) =>
                         /\ gen'[s].pc = "error"
                         /\ gen'[s].raised = "RuntimeError"
                         /\ sent'[s] = sent[s]
                         /\ gen'[s].opened = {}
                  /\ gen'[s].pc = "done" => gen[s].pc \in {"zend", "done"}]_vars
    /\ [](\A s \in Active :
              /\ Grown(s) =>
                     \A k \in 1..Len(sent[s]) : sent[s][k].entry <= gen[s].di_used
              /\ gen[s].raised = "RuntimeError" => Grown(s) /\ sent[s] # <<>>)

\* C28: a path was registered after the first central directory header of
\* a two-entry ZIP stream, and the next pull raised RuntimeError.
C28_Witness ==
    /\ kind[1] = "zip"
    /\ gen[1].raised = "RuntimeError"
    /\ Len(files[1]) = 3
    /\ gen[1].di_used = 2
    /\ Last(sent[1]).tag = "central"
    /\ Last(sent[1]).entry = 1

\* C28: the same after the first entry of a TAR stream.
C28_TarWitness ==
    /\ kind[1] = "tar"
    /\ gen[1].raised = "RuntimeError"
    /\ Len(files[1]) = 3
    /\ Last(sent[1]).tag = "padding"
    /\ Last(sent[1]).entry = 1

\* ------------------------------------------- the header functions alone

\* The ZIP header functions called with arguments of their own: archive
\* paths, files (one of 2^32 - 1 bytes and one of 2^32 bytes among them),
\* and offsets, sizes and entry counts on both sides of what their fields
\* can hold.
FieldNames == {NameA, NameEmpty}

FieldPaths == {"f10", "f5", "gone", "max", "huge"}

FieldCrcs == {crc32("f10")}

FieldValues ==
    {PyInt(0), PyInt(35), <<32767, 65535>>, <<65535, 65535>>, <<65536, 0>>, <<65536, 1>>}

FieldCounts == {PyInt(0), PyInt(2), PyInt(65535), PyInt(65536), PyInt(65537)}

senderVars == <<kind, files, lastAdd, readded, advertised, gen, sent, fsops, measured>>

CallZipLocalFileHeader(filename, filepath, crc) ==
    /\ call' = [fn |-> "zip_local_file_header",
                args |-> <<filename, filepath, crc>>,
                raised |-> zip_local_file_header_raises(filename, filepath),
                result |-> IF zip_local_file_header_raises(filename, filepath) THEN <<>>
                           ELSE zip_local_file_header(filename, filepath, crc)]
    /\ UNCHANGED <<senderVars, scanner>>

CallZipCentralDirectoryFileHeader(filename, filepath, crc, offset) ==
    /\ call' = [fn |-> "zip_central_directory_file_header",
                args |-> <<filename, filepath, crc, offset>>,
                raised |-> zip_central_directory_file_header_raises(filename, filepath, offset),
                result |-> IF zip_central_directory_file_header_raises(
                                  filename, filepath, offset) THEN <<>>
                           ELSE zip_central_directory_file_header(
                                    filename, filepath, crc, offset)]
    /\ UNCHANGED <<senderVars, scanner>>

CallZipEndOfCentralDirectory(items_number, central_directory_size, central_directory_offset) ==
    /\ call' = [fn |-> "zip_end_of_central_directory",
                args |-> <<items_number, central_directory_size, central_directory_offset>>,
                raised |-> zip_end_of_central_directory_raises(
                               items_number, central_directory_size, central_directory_offset),
                result |-> IF zip_end_of_central_directory_raises(
                                  items_number, central_directory_size,
                                  central_directory_offset) THEN <<>>
                           ELSE zip_end_of_central_directory(
                                    items_number, central_directory_size,
                                    central_directory_offset)]
    /\ UNCHANGED <<senderVars, scanner>>

FieldNext ==
    \/ \E filename \in FieldNames, filepath \in FieldPaths, crc \in FieldCrcs :
           CallZipLocalFileHeader(filename, filepath, crc)
    \/ \E filename \in FieldNames, filepath \in FieldPaths, crc \in FieldCrcs,
             offset \in FieldValues :
           CallZipCentralDirectoryFileHeader(filename, filepath, crc, offset)
    \/ \E items_number \in FieldCounts, central_directory_size \in FieldValues,
             central_directory_offset \in FieldValues :
           CallZipEndOfCentralDirectory(
               items_number, central_directory_size, central_directory_offset)

FieldSpec == Init /\ [][FieldNext]_vars

\* The value fits a field of two bytes, of four bytes.
Fits16(int) == int[1] = 0

Fits32(int) == int[1] \in 0..65535

\* The four bytes at offset off, read as a little-endian number.
Reads32(bytes, off) == <<Field(bytes, off + 2, 2), Field(bytes, off, 2)>>

\* The modification time of the file can be packed (see C24).
YearFits(filepath) == FromTimestamp(Stat(filepath).st_mtime).year \in 1980..2107

\* C29: a ZIP header function never writes a value truncated.  When the
\* file size (local and central header), the offset of the local header
\* (central header), the size or the offset of the central directory (end
\* record) is 2^32 or more, or the entry count (end record) is 2^16 or
\* more, the function that would write the value raises; when it returns,
\* each of these fields reads back as the exact value it was given.
C29_NoFieldIsTruncated ==
    LET a == call.args
        r == call.result
    IN  /\ call.fn = "zip_local_file_header" =>
               LET st_size == Stat(a[2]).st_size
               IN  /\ call.raised <=>
                          (~Exists(a[2]) \/ ~YearFits(a[2]) \/ ~Fits32(st_size))
                   /\ ~call.raised =>
                          /\ Reads32(r, 18) = st_size
                          /\ Reads32(r, 22) = st_size
        /\ call.fn = "zip_central_directory_file_header" =>
               LET st_size == Stat(a[2]).st_size
               IN  /\ call.raised <=>
                          (~Exists(a[2]) \/ ~YearFits(a[2]) \/ ~Fits32(st_size)
                               \/ ~Fits32(a[4]))
                   /\ ~call.raised =>
                          /\ Reads32(r, 20) = st_size
                          /\ Reads32(r, 24) = st_size
                          /\ Reads32(r, 42) = a[4]
        /\ call.fn = "zip_end_of_central_directory" =>
               /\ call.raised <=> (~Fits16(a[1]) \/ ~Fits32(a[2]) \/ ~Fits32(a[3]))
               /\ ~call.raised =>
                      /\ <<0, Field(r, 8, 2)>> = a[1]
                      /\ <<0, Field(r, 10, 2)>> = a[1]
                      /\ Reads32(r, 12) = a[2]
                      /\ Reads32(r, 16) = a[3]

\* C29: the local header of a file of 2^32 bytes raised.
C29_Witness ==
    /\ call.fn = "zip_local_file_header"
    /\ call.args[2] = "huge"
    /\ Stat("huge").st_size = <<65536, 0>>
    /\ call.raised

\* C29: the end record of 65536 entries raised, with a directory that fits.
C29_CountWitness ==
    /\ call.fn = "zip_end_of_central_directory"
    /\ call.args = <<PyInt(65536), PyInt(35), PyInt(35)>>
    /\ call.raised

\* C29: the central header of a file of 2^32 - 1 bytes at offset 2^32 - 1
\* was returned, with both values in it.
C29_LargestWitness ==
    /\ call.fn = "zip_central_directory_file_header"
    /\ call.args[2] = "max"
    /\ call.args[4] = <<65535, 65535>>
    /\ ~call.raised
    /\ SubSeq(call.result, 43, 46) = <<255, 255, 255, 255>>

\* ------------------------------------------------------------ scanner.scan

MaxLeds == 12

\* length = len(config.LEDS_UUIDS) + (2 if on_and_off else 0)
ScanLength == scanner.LEDS_UUIDS + (IF scanner.on_and_off THEN 2 ELSE 0)

\* f'{ratio:.3}' of the ratio p / q, 0 < p / q <= 1: the number with three
\* significant digits nearest to it (the even one of two equally near), as
\* the fraction <<m, 10^e>> a reader of the event gets.
Format3(p, q) ==
    LET e == CHOOSE x \in 2..9 : /\ p * Pow(10, x) >= 100 * q
                                  /\ \A y \in 2..(x - 1) : p * Pow(10, y) < 100 * q
        scaled == p * Pow(10, e)
        floor == scaled \div q
        twice == 2 * (scaled % q)
        m == IF twice > q \/ (twice = q /\ floor % 2 = 1) THEN floor + 1 ELSE floor
    IN  <<m, Pow(10, e)>>

\* The line scan yields.
Event(status, id, p, q) == [status |-> status, id |-> id, ratio |-> Format3(p, q)]

\* str(led) of the LED at position i of gpio_leds.leds, and the two ids of
\* the captures with all LEDs on and off.
Led(i) == <<"LED", i>>

AllOn == <<"all_on", 0>>

AllOff == <<"all_off", 0>>

\* with leds.get() as gpio_leds: GpioLeds (a GPIO chip is configured) has
\* no __enter__, and DummyLeds.__enter__ calls led.enter() on each of its
\* DummyLed objects, which have no such method.
LedsEnterRaises == scanner.GPIO_CHIP \/ scanner.LEDS_UUIDS >= 1

\* scan(output_dir, on_and_off): the generator is created, its body has not
\* started.
ScanCall(on_and_off) ==
    /\ scanner.pc = "idle"
    /\ scanner' = [scanner EXCEPT !.pc = "start", !.on_and_off = on_and_off]
    /\ UNCHANGED <<senderVars, call>>

\* First pull: the directory is made, the camera is entered, and entering
\* the LEDs raises.
ScanEnterRaise ==
    /\ scanner.pc = "start"
    /\ LedsEnterRaises
    /\ scanner' = [scanner EXCEPT !.pc = "error",
                                  !.raised = IF scanner.GPIO_CHIP THEN "TypeError"
                                             ELSE "AttributeError"]
    /\ UNCHANGED <<senderVars, call>>

\* The generator is in the loop over gpio_leds.leds, or about to enter it.
InLedLoop == (scanner.pc = "start" /\ ~LedsEnterRaises) \/ scanner.pc = "led"

\* A pull that ends with a 'captured' event: the next LED of the loop, then
\* all LEDs on, then all LEDs off.
ScanCaptured ==
    /\ \/ /\ InLedLoop
          /\ scanner.count < scanner.LEDS_UUIDS
          /\ scanner' = [scanner EXCEPT
                 !.pc = "led",
                 !.count = @ + 1,
                 !.file_paths = Append(@, Led(scanner.count + 1)),
                 !.events = Append(@, Event("captured", Led(scanner.count + 1),
                                            scanner.count + 1, 2 * ScanLength))]
       \/ /\ InLedLoop
          /\ scanner.count >= scanner.LEDS_UUIDS
          /\ scanner.on_and_off
          /\ scanner' = [scanner EXCEPT
                 !.pc = "all_on",
                 !.file_paths = Append(@, AllOn),
                 !.events = Append(@, Event("captured", AllOn,
                                            ScanLength - 1, 2 * ScanLength))]
       \/ /\ scanner.pc = "all_on"
          /\ scanner' = [scanner EXCEPT
                 !.pc = "all_off",
                 !.file_paths = Append(@, AllOff),
                 !.events = Append(@, Event("captured", AllOff, 1, 2))]
    /\ UNCHANGED <<senderVars, call>>

\* The captures are over: the generator is about to enter the loop over
\* file_paths, or is in it after count files.
Saved ==
    IF scanner.pc = "ready" THEN scanner.count
    ELSE 0

InSaveLoop ==
    \/ InLedLoop /\ scanner.count >= scanner.LEDS_UUIDS /\ ~scanner.on_and_off
    \/ scanner.pc = "all_off"
    \/ scanner.pc = "ready"

\* A pull that ends with a 'ready' event: the next file is saved.
ScanReady ==
    /\ InSaveLoop
    /\ Saved < Len(scanner.file_paths)
    /\ scanner' = [scanner EXCEPT
           !.pc = "ready",
           !.count = Saved + 1,
           !.events = Append(@, Event("ready", scanner.file_paths[Saved + 1],
                                      ScanLength + Saved + 1, 2 * ScanLength))]
    /\ UNCHANGED <<senderVars, call>>

\* A pull after the last file: the generator returns.
ScanStop ==
    /\ InSaveLoop
    /\ Saved >= Len(scanner.file_paths)
    /\ scanner' = [scanner EXCEPT !.pc = "done"]
    /\ UNCHANGED <<senderVars, call>>

\* The scanner is configured with any number of LEDs up to MaxLeds, with
\* or without a GPIO chip.
ScanInit ==
    /\ kind \in [Senders -> Kinds]
    /\ files = [s \in Senders |-> <<>>]
    /\ lastAdd = [s \in Senders |-> EmptyDict]
    /\ readded = [s \in Senders |-> FALSE]
    /\ advertised = [s \in Senders |-> -1]
    /\ gen = [s \in Senders |-> NoGen]
    /\ sent = [s \in Senders |-> <<>>]
    /\ fsops = [s \in Senders |-> NoOps]
    /\ measured = [s \in Senders |-> NoMeasure]
    /\ call = NoCall
    /\ scanner \in {[NoScan EXCEPT !.LEDS_UUIDS = n, !.GPIO_CHIP = chip] :
                        n \in 0..MaxLeds, chip \in BOOLEAN}

ScanNext ==
    \/ \E on_and_off \in BOOLEAN : ScanCall(on_and_off)
    \/ ScanEnterRaise
    \/ ScanCaptured
    \/ ScanReady
    \/ ScanStop

ScanSpec == ScanInit /\ [][ScanNext]_vars

\* p1 / q1 < p2 / q2 for two fractions with positive denominators.
Less(r1, r2) == r1[1] * r2[2] < r2[1] * r1[2]

\* The events of a whole scan as the claim has them: a 'captured' event
\* for each LED in turn and, with on_and_off, for all_on and all_off, then
\* a 'ready' event for each of them in the same order; the ratios grow
\* from event to event, the last 'captured' one has 1/2 and the last
\* 'ready' one has 1.
EventsOfAWholeScan ==
    LET ev == scanner.events
        n == scanner.LEDS_UUIDS
        id(i) == IF i <= n THEN Led(i) ELSE IF i = n + 1 THEN AllOn ELSE AllOff
    IN  /\ Len(ev) = 2 * ScanLength
        /\ \A i \in 1..ScanLength :
               /\ ev[i].status = "captured" /\ ev[i].id = id(i)
               /\ ev[ScanLength + i].status = "ready" /\ ev[ScanLength + i].id = id(i)
        /\ \A i \in 1..(Len(ev) - 1) : Less(ev[i].ratio, ev[i + 1].ratio)
        /\ ScanLength >= 1 =>
               /\ ev[ScanLength].ratio[1] * 2 = ev[ScanLength].ratio[2]
               /\ ev[Len(ev)].ratio[1] = ev[Len(ev)].ratio[2]

\* C30: a scan that is over, by exhaustion or by an error, has yielded the
\* events of a whole scan of its LEDs.
C30_ScanYieldsCapturedThenReady ==
    scanner.pc \in {"done", "error"} => EventsOfAWholeScan

\* C30, what holds: a scan that ran to its end has yielded the events of a
\* whole scan, and a scan ends with an error, without any event, exactly
\* when a GPIO chip is configured or there is at least one LED.
C30_WholeScanWhenTheLedsAreEntered ==
    /\ scanner.pc = "done" => EventsOfAWholeScan
    /\ scanner.pc = "error" =>
           /\ scanner.events = <<>>
           /\ scanner.GPIO_CHIP \/ scanner.LEDS_UUIDS >= 1
    /\ (scanner.pc \notin {"idle", "start"}
            /\ (scanner.GPIO_CHIP \/ scanner.LEDS_UUIDS >= 1)) => scanner.pc = "error"

\* C30: the scan of the six LEDs of config.local.py, with on_and_off, has
\* raised at its first pull.
C30_ScanRaised ==
    /\ scanner.LEDS_UUIDS = 6
    /\ ~scanner.GPIO_CHIP
    /\ scanner.on_and_off
    /\ scanner.pc = "error"
    /\ scanner.raised = "AttributeError"
    /\ scanner.events = <<>>

\* C30: a scan without LEDs, with on_and_off, ran to its end: all_on and
\* all_off captured at 0.25 and 0.5, then ready at 0.75 and 1.
C30_NoLedWitness ==
    /\ scanner.LEDS_UUIDS = 0
    /\ scanner.pc = "done"
    /\ Len(scanner.events) = 4
    /\ scanner.events[1].ratio = <<250, 1000>>
    /\ scanner.events[4].ratio = <<100, 100>>

====
